---- MODULE Spec2Model ----
(***************************************************************************)
(* Transcript-to-document pipeline of clear-notes                          *)
(* (src/src/app/api/progress/route.ts): the token-bucket rate limiter, the *)
(* retrying paragraph enhancement loop and the LaTeX document builder.     *)
(*                                                                         *)
(* Strings are sequences of atoms.  An atom is a piece of text that no     *)
(* operation of the pipeline looks inside: a speaker marker                *)
(* "[Speaker 1]:", a blank " ", a line break "\n", a percent sign "%" or a *)
(* word.  Times are in milliseconds.  The bucket level is kept in units of *)
(* 1/TokenUnit of a token, so that the refill (elapsed seconds times       *)
(* 15/60) is an integer.                                                   *)
(***************************************************************************)
EXTENDS Integers, Sequences, FiniteSets, TLC

VARIABLES
    \* the rate limiter (route.ts 218-221) and the clock it reads
    now,                  \* Date.now(), ms since the limiter was created
    tokens,               \* bucket level, in 1/TokenUnit of a token
    lastRefillTimestamp,  \* ms
    \* processParagraphsWithGemini (route.ts 202-452)
    paragraphs,           \* the input list, as segmentation returned it
    apiKey,               \* whether GEMINI_API_KEY is set
    service,              \* the responses the enhancement API may give
    pc,                   \* where the run is
    speakerGroups,        \* <<[id, paras]>> in insertion order
    g, i,                 \* the group and the paragraph in it being handled
    retries,
    processedCount,
    processedParagraphs,
    paragraphFootnotes,   \* 0-based paragraph index -> <<caveats>>
    globalProgress,
    result,               \* [text, footnotes] returned by enhance
    latex,                \* generateLatexDocument(result.text, result.footnotes)
    \* observations of the run (no code reads them)
    acquisitions,         \* limiter driver: log of [called, admitted, level]
    tokensTaken,          \* takeToken calls completed
    apiCalls,             \* model.generateContent calls issued
    attempts,             \* this paragraph's API calls: [calls, failed]
    failures,             \* failed API calls of the run
    handled,              \* the paragraph the last step finished handling
    noted,                \* input position (0-based) -> the note recorded for it
    \* the POST handler (route.ts 672-971) and what it leaves behind
    upload,               \* the 'transcription' field of the form
    wantsStream,          \* formData.get('stream') === 'true'
    rpc,                  \* where the request is
    files,                \* the temporary paths that exist
    compiled,             \* how the compilation went (observation)
    response,             \* what POST returned
    frames,               \* the SSE frames the client has been sent
    writable,             \* whether writer.write still succeeds
    cleaned,              \* whether the finally of POST (960-970) has run
    \* inputs and outputs of the functions called on their own
    words,                \* transcriptionData.words given to processTranscription
    plain,                \* the argument of escapeLatex
    escaped,              \* what escapeLatex returned
    sentenceList,         \* the sentences of route.ts 162-175 for the text in plain
    \* the process-wide state next to globalProgress (route.ts 5-6), the runs
    \* that share it and the poll that reads it
    isProcessingActive,
    runs,                 \* run -> [at, processedCount, totalParagraphs]
    polled,               \* what GET (18-24) returned last
    lastWrite,            \* observation: the last call of updateGlobalProgress, [by, value]
    \* the page reading the event stream (part_000 536-625)
    client                \* [sent, wire, reads, buffer, data, progress, isProcessing]

limiterVars == <<now, tokens, lastRefillTimestamp>>

enhanceVars == <<paragraphs, apiKey, service, pc, speakerGroups, g, i, retries,
                 processedCount, processedParagraphs, paragraphFootnotes,
                 globalProgress, result, latex>>

ghostVars == <<tokensTaken, apiCalls, attempts, failures, handled, noted>>

requestVars == <<upload, wantsStream, rpc, files, compiled, response, frames, writable, cleaned>>

callVars == <<words, plain, escaped, sentenceList>>

sharedVars == <<isProcessingActive, runs, polled, lastWrite>>

vars == <<limiterVars, enhanceVars, ghostVars, acquisitions, requestVars, callVars, client, sharedVars>>

----------------------------------------------------------------------------
(* Bounds of the model *)

\* takeToken calls made by the limiter's driver
MaxAcquires == 16

\* paragraphs in the list given to enhance
MaxParas == 2

\* paragraphs in the list when the service never fails
MaxReliableParas == 3

\* failed API calls in one run
MaxFailures == 4

\* pauses of the caller between two takeToken calls, ms
Gaps == {0, 1500}

----------------------------------------------------------------------------
(* The rate limiter: route.ts 217-243 *)

MAX_TOKENS == 15

\* REFILL_RATE = 15 / 60 tokens per second
RefillTokens == 15

RefillSeconds == 60

\* level units per token: elapsedMs * RefillTokens units are added per refill
TokenUnit == RefillSeconds * 1000

Capacity == MAX_TOKENS * TokenUnit

Min(a, b) == IF a <= b THEN a ELSE b

CeilDiv(a, b) == (a + b - 1) \div b

\* the refill without its cap
RefillUncapped(level, elapsedMs) == level + elapsedMs * RefillTokens

\* tokens = Math.min(MAX_TOKENS, tokens + elapsedSeconds * REFILL_RATE)
Refill(level, elapsedMs) == Min(Capacity, level + elapsedMs * RefillTokens)

\* the wait with the rate taken per minute: ceil((1 - tokens) / 15) seconds
WaitTimePerMinute(level) == CeilDiv(TokenUnit - level, TokenUnit * RefillTokens) * 1000

\* Math.ceil((1 - tokens) / REFILL_RATE) * 1000
WaitTime(level) ==
    CeilDiv((TokenUnit - level) * RefillSeconds, TokenUnit * RefillTokens) * 1000

\* takeToken leaving lastRefillTimestamp as it was set before the wait
TakeTokenStampedBeforeWait(level, last, t) ==
    LET refilled == Refill(level, t - last)
        waitMs   == IF refilled < TokenUnit THEN WaitTime(refilled) ELSE 0
        admitted == IF refilled < TokenUnit THEN TokenUnit ELSE refilled
    IN [ waited    |-> waitMs,
         level     |-> admitted,
         tokens    |-> admitted - TokenUnit,
         lastRefillTimestamp |-> t,
         now       |-> t + waitMs ]

\* One call of takeToken at time t: the level when the call is admitted (just
\* before the decrement), the time it returns, and the state it leaves.
TakeToken(level, last, t) ==
    LET refilled == Refill(level, t - last)
        waitMs   == IF refilled < TokenUnit THEN WaitTime(refilled) ELSE 0
        admitted == IF refilled < TokenUnit THEN TokenUnit ELSE refilled
    IN [ waited    |-> waitMs,
         level     |-> admitted,
         tokens    |-> admitted - TokenUnit,
         lastRefillTimestamp |-> t + waitMs,
         now       |-> t + waitMs ]

----------------------------------------------------------------------------
(* Strings *)

\* a.join(sep)
RECURSIVE Join(_, _)
Join(strs, sep) ==
    IF strs = <<>> THEN <<>>
    ELSE IF Len(strs) = 1 THEN strs[1]
    ELSE strs[1] \o sep \o Join(Tail(strs), sep)

\* text.split(sep) for a one-atom separator: never empty, <<"">> for ""
RECURSIVE SplitFrom(_, _, _)
SplitFrom(text, sep, cur) ==
    IF text = <<>> THEN <<cur>>
    ELSE IF Head(text) = sep THEN <<cur>> \o SplitFrom(Tail(text), sep, <<>>)
    ELSE SplitFrom(Tail(text), sep, Append(cur, Head(text)))

Split(text, sep) == SplitFrom(text, sep, <<>>)

Whitespace == {" ", "\n"}

RECURSIVE TrimStart(_)
TrimStart(text) ==
    IF text # <<>> /\ Head(text) \in Whitespace THEN TrimStart(Tail(text)) ELSE text

RECURSIVE TrimEnd(_)
TrimEnd(text) ==
    IF text # <<>> /\ text[Len(text)] \in Whitespace
    THEN TrimEnd(SubSeq(text, 1, Len(text) - 1)) ELSE text

\* content.trim()
Trim(text) == TrimEnd(TrimStart(text))

\* whether part occurs in text as a run of consecutive atoms
Contains(text, part) ==
    \E k \in 0..(Len(text) - Len(part)) : SubSeq(text, k + 1, k + Len(part)) = part

----------------------------------------------------------------------------
(* Speaker markers *)

\* the prefix put before the paragraphs of the unknown speaker too
SpeakerPrefixAlways(speakerId) ==
    CASE speakerId = "speaker_1" -> <<"[Speaker 1]:", " ">>
      [] speakerId = "speaker_2" -> <<"[Speaker 2]:", " ">>
      [] speakerId = "speaker_A" -> <<"[Speaker A]:", " ">>
      [] speakerId = "3" -> <<"[Speaker 3]:", " ">>
      [] speakerId = "10" -> <<"[Speaker 10]:", " ">>
      [] OTHER -> <<"[Speaker unknown_speaker]:", " ">>

\* the prefix `[Speaker ${speakerId.replace('speaker_', '')}]: ` that
\* processTranscription (route.ts 187-190) puts before a speaker's paragraphs
SpeakerPrefix(speakerId) ==
    CASE speakerId = "speaker_1" -> <<"[Speaker 1]:", " ">>
      [] speakerId = "speaker_2" -> <<"[Speaker 2]:", " ">>
      [] speakerId = "speaker_A" -> <<"[Speaker A]:", " ">>
      [] speakerId = "3" -> <<"[Speaker 3]:", " ">>
      [] speakerId = "10" -> <<"[Speaker 10]:", " ">>
      [] OTHER -> <<>>

\* paragraph.match(/^\[Speaker (\d+)\]:(.*)/): the speaker number, "" for no match
SpeakerMatch(text) ==
    IF text = <<>> THEN ""
    ELSE CASE Head(text) = "[Speaker 1]:" -> "1"
           [] Head(text) = "[Speaker 2]:" -> "2"
           [] OTHER -> ""

\* `speaker_${speakerMatch[1]}`, or 'unknown_speaker'
GroupId(text) ==
    CASE SpeakerMatch(text) = "1" -> "speaker_1"
      [] SpeakerMatch(text) = "2" -> "speaker_2"
      [] OTHER -> "unknown_speaker"

\* `\\subsection*{Speaker ${currentSpeaker}}`
SubsectionHeader(speakerNum) ==
    CASE speakerNum = "1" -> "\\subsection*{Speaker 1}"
      [] speakerNum = "2" -> "\\subsection*{Speaker 2}"
      [] OTHER -> "\\subsection*{Speaker null}"

----------------------------------------------------------------------------
(* The paragraph lists segmentation returns: processTranscription, route.ts *)
(* 141-193, emits one block of paragraphs per speaker, each paragraph the   *)
(* speaker's prefix followed by its sentences.                              *)

SpeakerIds == {"speaker_1", "speaker_2", "speaker_A", "unknown_speaker"}

Bodies == {"a", "b"}

ParagraphOf(speakerId, body) == SpeakerPrefix(speakerId) \o <<body>>

\* every speaker's paragraphs are next to each other
OneBlockPerSpeaker(spk) ==
    \A x, z \in DOMAIN spk : \A y \in x..z : spk[x] = spk[z] => spk[y] = spk[x]

SegmentedLists(maxLen) ==
    UNION { { [k \in 1..n |-> ParagraphOf(spk[k], body[k])] :
                 spk \in { f \in [1..n -> SpeakerIds] : OneBlockPerSpeaker(f) },
                 body \in [1..n -> Bodies] } : n \in 0..maxLen }

----------------------------------------------------------------------------
(* The enhancement API's responses: what model.generateContent and          *)
(* result.response.text() give for one call                                *)

\* "throw":  generateContent (or text()) throws
\* "garbage": text that is no JSON and holds no {...}
\* "braces_bad": no JSON, and the {...} in it is no JSON either
\* "braces_ok": no JSON, but the {...} in it parses to an object
\* "json":  parses to an object
\* "scalar": parses to a number, a string or a boolean
\* "null":  parses to null
FailureKinds == {"throw", "garbage", "braces_bad"}

ObjectKinds == {"braces_ok", "json"}

ProcessedTexts == { <<>>, <<"x">> }

CaveatTexts == { <<>>, <<"None">>, <<"c">> }

Responses ==
    [kind : FailureKinds \cup {"scalar", "null"}, processed_text : {<<>>}, caveats : {<<>>}]
    \cup [kind : ObjectKinds, processed_text : ProcessedTexts, caveats : CaveatTexts]

\* a service that answers every call with a JSON object
ReliableResponses ==
    [kind : {"json"}, processed_text : ProcessedTexts, caveats : {<<>>, <<"c">>}]

\* without the second parse of route.ts 274-282: text that is no JSON fails
AttemptFailsUnlessJson(resp) == resp.kind \in FailureKinds \cup {"braces_ok"}

\* the call throws inside the try of route.ts 258-292
AttemptFails(resp) == resp.kind \in FailureKinds

\* the operands of || swapped: the original text always wins
ProcessedTextSwapped(resp, original) ==
    IF original # <<>> THEN original ELSE resp.processed_text

\* parsedResponse.processed_text || speakerParagraphs[i]
ProcessedText(resp, original) ==
    IF resp.processed_text # <<>> THEN resp.processed_text ELSE original

\* parsedResponse.caveats === 'None' ? '' : parsedResponse.caveats || ''
Caveats(resp) == IF resp.caveats = <<"None">> THEN <<>> ELSE resp.caveats

FailedNote == <<"Failed to process paragraph after multiple retries.">>

MaxRetries == 3

RetryDelay == 60000

\* the test written retries < maxRetries
MayRetryBelow(n) == n < MaxRetries

\* retries <= maxRetries
MayRetry(n) == n <= MaxRetries

\* Math.round((processedCount / totalParagraphs) * 100)
Progress(count, total) == (200 * count + total) \div (2 * total)

----------------------------------------------------------------------------
(* Grouping and indices *)

EmptyMap == [k \in {} |-> <<>>]

\* map.set(key, value)
MapSet(m, key, value) ==
    [k \in DOMAIN m \cup {key} |-> IF k = key THEN value ELSE m[k]]

\* the index counted from 1, 0 for none
FindIndexFromOne(ps, text) ==
    IF \E k \in DOMAIN ps : ps[k] = text
    THEN CHOOSE k \in DOMAIN ps : ps[k] = text /\ \A j \in 1..(k - 1) : ps[j] # text
    ELSE 0

\* paragraphs.findIndex(p => p === text), 0-based, -1 for none
FindIndex(ps, text) ==
    IF \E k \in DOMAIN ps : ps[k] = text
    THEN (CHOOSE k \in DOMAIN ps : ps[k] = text /\ \A j \in 1..(k - 1) : ps[j] # text) - 1
    ELSE -1

\* the forEach of route.ts 363-372: one group per id, in insertion order
RECURSIVE GroupBySpeaker(_, _)
GroupBySpeaker(ps, groups) ==
    IF ps = <<>> THEN groups
    ELSE LET id == GroupId(Head(ps))
         IN IF \E k \in DOMAIN groups : groups[k].id = id
            THEN GroupBySpeaker(Tail(ps),
                   [k \in DOMAIN groups |->
                      IF groups[k].id = id
                      THEN [groups[k] EXCEPT !.paras = Append(@, Head(ps))]
                      ELSE groups[k]])
            ELSE GroupBySpeaker(Tail(ps), Append(groups, [id |-> id, paras |-> <<Head(ps)>>]))

----------------------------------------------------------------------------
(* The LaTeX builder: route.ts 458-560 *)

\* the replace without its 'g' flag: only the first '%' becomes '\%'
EscapeLatexFirst(text) ==
    [k \in DOMAIN text |->
        IF text[k] = "%" /\ \A j \in 1..(k - 1) : text[j] # "%" THEN "\\%" ELSE text[k]]

\* every '%' becomes '\%'
EscapeLatex(text) ==
    [k \in DOMAIN text |-> IF text[k] = "%" THEN "\\%" ELSE text[k]]

\* footnotes.get(index)?.[0], "" for undefined
FirstCaveat(footnotes, index) ==
    IF index \in DOMAIN footnotes /\ footnotes[index] # <<>>
    THEN footnotes[index][1] ELSE <<>>

\* the footnote appended without the test of caveats
WithFootnoteAlways(formatted, caveats) ==
    formatted \o <<"\\footnote{">> \o EscapeLatex(caveats) \o <<"}">>

\* `${formattedContent}\\footnote{${escapeLatex(caveats)}}` when caveats is truthy
WithFootnote(formatted, caveats) ==
    IF caveats # <<>>
    THEN formatted \o <<"\\footnote{">> \o EscapeLatex(caveats) \o <<"}">>
    ELSE formatted

\* `\\subsection*{Speaker ${currentSpeaker}}\n${currentGroup.join('\n')}`
Subsection(speakerNum, group) ==
    <<SubsectionHeader(speakerNum), "\n">> \o Join(group, <<"\n">>)

\* the turn that never closes a group: a new speaker's content joins the open one
BuildStepNoFlush(st, paragraph, index, footnotes) ==
    LET speakerNum == SpeakerMatch(paragraph)
        caveats    == FirstCaveat(footnotes, index)
    IN IF speakerNum # ""
       THEN [st EXCEPT !.currentSpeaker = IF @ = "" THEN speakerNum ELSE @,
                       !.currentGroup =
                          Append(@, WithFootnote(EscapeLatex(Trim(Tail(paragraph))), caveats))]
       ELSE IF st.currentGroup # <<>>
            THEN [st EXCEPT !.currentGroup =
                               Append(@, WithFootnote(EscapeLatex(paragraph), caveats))]
            ELSE [st EXCEPT !.groupedContent =
                               Append(@, WithFootnote(EscapeLatex(paragraph), caveats))]

\* the turn that closes the open group at a chunk without marker and puts the
\* chunk on top level
BuildStepUnmarkedOnTop(st, paragraph, index, footnotes) ==
    LET speakerNum == SpeakerMatch(paragraph)
        caveats    == FirstCaveat(footnotes, index)
        closed     == IF st.currentGroup # <<>>
                      THEN [st EXCEPT
                              !.groupedContent =
                                 Append(@, Subsection(st.currentSpeaker, st.currentGroup)),
                              !.currentGroup = <<>>]
                      ELSE st
    IN IF speakerNum # ""
       THEN LET flushed == IF speakerNum # st.currentSpeaker THEN closed ELSE st
            IN [flushed EXCEPT !.currentSpeaker = speakerNum,
                               !.currentGroup =
                                  Append(@, WithFootnote(EscapeLatex(Trim(Tail(paragraph))),
                                                         caveats))]
       ELSE [closed EXCEPT !.currentSpeaker = "",
                           !.groupedContent =
                              Append(@, WithFootnote(EscapeLatex(paragraph), caveats))]

\* one turn of the forEach of route.ts 478-528; currentSpeaker "" is null
BuildStep(st, paragraph, index, footnotes) ==
    LET speakerNum == SpeakerMatch(paragraph)
        caveats    == FirstCaveat(footnotes, index)
    IN IF speakerNum # ""
       THEN LET formatted == WithFootnote(EscapeLatex(Trim(Tail(paragraph))), caveats)
                flushed   == IF speakerNum # st.currentSpeaker /\ st.currentGroup # <<>>
                             THEN [st EXCEPT
                                     !.groupedContent =
                                        Append(@, Subsection(st.currentSpeaker, st.currentGroup)),
                                     !.currentGroup = <<>>]
                             ELSE st
            IN [flushed EXCEPT !.currentSpeaker = speakerNum,
                               !.currentGroup = Append(@, formatted)]
       ELSE LET formatted == WithFootnote(EscapeLatex(paragraph), caveats)
            IN IF st.currentGroup # <<>>
               THEN [st EXCEPT !.currentGroup = Append(@, formatted)]
               ELSE [st EXCEPT !.groupedContent = Append(@, formatted)]

RECURSIVE BuildFrom(_, _, _, _)
BuildFrom(st, chunks, index, footnotes) ==
    IF chunks = <<>> THEN st
    ELSE BuildFrom(BuildStep(st, Head(chunks), index, footnotes),
                   Tail(chunks), index + 1, footnotes)

\* the groupedContent array without the flush of route.ts 530-533
GroupedContentUnflushed(text, footnotes) ==
    BuildFrom([groupedContent |-> <<>>, currentSpeaker |-> "", currentGroup |-> <<>>],
              Split(text, "\n"), 0, footnotes).groupedContent

\* the groupedContent array when the forEach and the last flush are done
GroupedContent(text, footnotes) ==
    LET st == BuildFrom([groupedContent |-> <<>>, currentSpeaker |-> "", currentGroup |-> <<>>],
                        Split(text, "\n"), 0, footnotes)
    IN IF st.currentGroup # <<>> /\ st.currentSpeaker # ""
       THEN Append(st.groupedContent, Subsection(st.currentSpeaker, st.currentGroup))
       ELSE st.groupedContent

\* the document: preamble, the content joined by line breaks, closing lines
GenerateLatexDocument(text, footnotes) ==
    <<"\\begin{spacing}{1.15}", "\n">>
    \o Join(GroupedContent(text, footnotes), <<"\n">>)
    \o <<"\n", "\\end{spacing}">>

----------------------------------------------------------------------------
(* What the observations record *)

RECURSIVE Flatten(_)
Flatten(seqs) == IF seqs = <<>> THEN <<>> ELSE Head(seqs) \o Flatten(Tail(seqs))

\* the input positions (1-based) in the order the loop of route.ts 387-437
\* handles them
ProcessingOrder(ps) ==
    LET groups == GroupBySpeaker(ps, <<>>)
        ofGroup(id) == SelectSeq([k \in 1..Len(ps) |-> k], LAMBDA k : GroupId(ps[k]) = id)
    IN Flatten([k \in DOMAIN groups |-> ofGroup(groups[k].id)])

\* the 0-based input position of the paragraph being handled
Position == ProcessingOrder(paragraphs)[processedCount] - 1

NoAttempts == [calls |-> 0, failed |-> 0]

NoResponse == [kind |-> "none", processed_text |-> <<>>, caveats |-> <<>>]

NotHandled == [pos |-> -1, outcome |-> "none", calls |-> 0, failed |-> 0,
               resp |-> NoResponse]

\* the attempts after one more call, failed or not
Attempted(a, hasFailed) ==
    [calls |-> a.calls + 1, failed |-> a.failed + (IF hasFailed THEN 1 ELSE 0)]

\* what is recorded when the paragraph's last call got resp
Handled(outcome, a, resp) ==
    [pos |-> Position, outcome |-> outcome, calls |-> a.calls, failed |-> a.failed,
     resp |-> IF AttemptFails(resp) THEN NoResponse
              ELSE [resp EXCEPT !.kind = IF @ \in ObjectKinds THEN "object" ELSE @]]

----------------------------------------------------------------------------
(* The event stream of the streamed mode: route.ts 706-722, 776-837 *)

\* Buffer.from(content).toString('base64')
Base64(content) == [encoding |-> "base64", of |-> content]

NoContent == [encoding |-> "none", of |-> <<>>]

\* `data: ${JSON.stringify({ progress })}\n\n`
ProgressFrame(progress) ==
    [kind |-> "progress", progress |-> progress, pdfAvailable |-> FALSE,
     latexContent |-> NoContent]

\* the frames of route.ts 777-784, 798-803 and 818-823
CompleteFrame(pdfAvailable, content) ==
    [kind |-> "complete", progress |-> -1, pdfAvailable |-> pdfAvailable,
     latexContent |-> Base64(content)]

\* the frame of route.ts 834-836
ErrorFrame ==
    [kind |-> "error", progress |-> -1, pdfAvailable |-> FALSE, latexContent |-> NoContent]

\* await writer.write(...): the frame goes out unless the stream is broken, in
\* which case the write throws
WriteFrame(fs, frame, canWrite) == IF canWrite THEN Append(fs, frame) ELSE fs

----------------------------------------------------------------------------
(* One run of the pipeline: enhance, then build *)

\* GET has not been called
NoPoll == [progress |-> -1, isProcessingActive |-> FALSE]

\* updateGlobalProgress has not been called: globalProgress is 0 (route.ts 5)
NoWrite == [by |-> 0, value |-> 0]

\* the process-wide state as the modules are loaded, with no run and no poll
NoRuns ==
    /\ isProcessingActive = FALSE
    /\ runs = <<>>
    /\ polled = NoPoll
    /\ lastWrite = NoWrite

\* no page is reading a stream
NoClient == [sent |-> <<>>, wire |-> <<>>, reads |-> 0, buffer |-> <<>>, data |-> <<>>, progress |-> 0,
             isProcessing |-> FALSE]

NoResult == [text |-> <<>>, footnotes |-> EmptyMap]

\* POST has not returned
NoReply == [kind |-> "none", status |-> 0, latexContent |-> NoContent, error |-> ""]

RunInit ==
    /\ now = 0
    /\ tokens = Capacity
    /\ lastRefillTimestamp = 0
    /\ pc = "start"
    /\ speakerGroups = <<>>
    /\ g = 1
    /\ i = 1
    /\ retries = 0
    /\ processedCount = 0
    /\ processedParagraphs = <<>>
    /\ paragraphFootnotes = EmptyMap
    /\ globalProgress = 0
    /\ result = NoResult
    /\ latex = <<>>
    /\ acquisitions = <<>>
    /\ tokensTaken = 0
    /\ apiCalls = 0
    /\ attempts = NoAttempts
    /\ failures = 0
    /\ handled = NotHandled
    /\ noted = EmptyMap
    /\ upload = "ok"
    /\ wantsStream = FALSE
    /\ rpc = "none"
    /\ files = {}
    /\ compiled = "none"
    /\ response = NoReply
    /\ frames = <<>>
    /\ writable = TRUE
    /\ cleaned = FALSE
    /\ words = <<>>
    /\ plain = <<>>
    /\ escaped = <<>>
    /\ sentenceList = <<>>
    /\ client = NoClient
    /\ NoRuns

Init ==
    /\ RunInit
    /\ paragraphs \in SegmentedLists(MaxParas)
    /\ apiKey \in BOOLEAN
    /\ service = Responses

\* speakerParagraphs[i]
Current == speakerGroups[g].paras[i]

\* the loops of route.ts 387 and 391 move on
Advance ==
    IF i < Len(speakerGroups[g].paras)
    THEN /\ i' = i + 1
         /\ g' = g
    ELSE /\ i' = 1
         /\ g' = g + 1

\* the run without a key ending with nothing returned
EnhanceWithoutKeyEmpty ==
    /\ pc = "start"
    /\ ~apiKey
    /\ result' = NoResult
    /\ pc' = "returned"
    /\ UNCHANGED <<limiterVars, paragraphs, apiKey, service, speakerGroups, g, i, retries,
                   processedCount, processedParagraphs, paragraphFootnotes,
                   globalProgress, latex, ghostVars, acquisitions, requestVars, callVars, client, sharedVars>>

\* route.ts 207-215: no key, the paragraphs are returned as they came
EnhanceWithoutKey ==
    /\ pc = "start"
    /\ ~apiKey
    /\ result' = [text |-> Join(paragraphs, <<" ">>), footnotes |-> EmptyMap]
    /\ pc' = "returned"
    /\ UNCHANGED <<limiterVars, paragraphs, apiKey, service, speakerGroups, g, i, retries,
                   processedCount, processedParagraphs, paragraphFootnotes,
                   globalProgress, latex, ghostVars, acquisitions, requestVars, callVars, client, sharedVars>>

\* route.ts 317-385: the paragraphs are grouped by speaker
EnhanceSetup ==
    /\ pc = "start"
    /\ apiKey
    /\ speakerGroups' = GroupBySpeaker(paragraphs, <<>>)
    /\ pc' = "loop"
    /\ UNCHANGED <<limiterVars, paragraphs, apiKey, service, g, i, retries,
                   processedCount, processedParagraphs, paragraphFootnotes,
                   globalProgress, result, latex, ghostVars, acquisitions, requestVars, callVars, client, sharedVars>>

\* route.ts 391-398 and 711-722: the progress is reported, to the stream too in
\* the streamed mode, and a token taken
BeginParagraph ==
    /\ pc = "loop"
    /\ g <= Len(speakerGroups)
    /\ processedCount' = processedCount + 1
    /\ globalProgress' = Progress(processedCount + 1, Len(paragraphs))
    /\ LET r == TakeToken(tokens, lastRefillTimestamp, now)
       IN /\ now' = r.now
          /\ tokens' = r.tokens
          /\ lastRefillTimestamp' = r.lastRefillTimestamp
    /\ frames' = IF wantsStream
                 THEN WriteFrame(frames, ProgressFrame(Progress(processedCount + 1, Len(paragraphs))),
                                 writable)
                 ELSE frames
    /\ tokensTaken' = tokensTaken + 1
    /\ retries' = 0
    /\ attempts' = NoAttempts
    /\ handled' = NotHandled
    /\ pc' = "attempt"
    /\ UNCHANGED <<paragraphs, apiKey, service, speakerGroups, g, i, processedParagraphs,
                   paragraphFootnotes, result, latex, apiCalls, failures, noted, acquisitions,
                   upload, wantsStream, rpc, files, compiled, response, writable, cleaned, callVars, client, sharedVars>>

\* route.ts 259-299: the call fails and is tried again after the delay
AttemptFailsRetry ==
    /\ pc = "attempt"
    /\ \E resp \in service :
         /\ AttemptFails(resp)
         /\ attempts' = Attempted(attempts, TRUE)
    /\ failures < MaxFailures
    /\ failures' = failures + 1
    /\ MayRetry(retries + 1)
    /\ retries' = retries + 1
    /\ apiCalls' = apiCalls + 1
    /\ now' = now + RetryDelay
    /\ UNCHANGED <<tokens, lastRefillTimestamp, paragraphs, apiKey, service, pc, speakerGroups,
                   g, i, processedCount, processedParagraphs, paragraphFootnotes,
                   globalProgress, result, latex, tokensTaken, handled, noted, acquisitions, requestVars, callVars, client, sharedVars>>

\* route.ts 300-306 and 425-435: the last try fails, the original text is kept
AttemptFailsExhausted ==
    /\ pc = "attempt"
    /\ \E resp \in service :
         /\ AttemptFails(resp)
         /\ attempts' = Attempted(attempts, TRUE)
         /\ handled' = Handled("exhausted", Attempted(attempts, TRUE), resp)
    /\ failures < MaxFailures
    /\ failures' = failures + 1
    /\ ~MayRetry(retries + 1)
    /\ retries' = retries + 1
    /\ apiCalls' = apiCalls + 1
    /\ processedParagraphs' = Append(processedParagraphs, Current)
    /\ LET originalIndex == FindIndex(paragraphs, Current)
       IN paragraphFootnotes' =
             IF originalIndex # -1
             THEN MapSet(paragraphFootnotes, originalIndex, <<FailedNote>>)
             ELSE paragraphFootnotes
    /\ noted' = MapSet(noted, Position, FailedNote)
    /\ Advance
    /\ pc' = "loop"
    /\ UNCHANGED <<limiterVars, paragraphs, apiKey, service, speakerGroups, processedCount,
                   globalProgress, result, latex, tokensTaken, acquisitions, requestVars, callVars, client, sharedVars>>

\* route.ts 265-282 and 404-424: the response parses, its text is taken
AttemptSucceeds ==
    /\ pc = "attempt"
    /\ \E resp \in service :
         /\ ~AttemptFails(resp)
         /\ resp.kind # "null"
         /\ attempts' = Attempted(attempts, FALSE)
         /\ handled' = Handled("ok", Attempted(attempts, FALSE), resp)
         /\ processedParagraphs' = Append(processedParagraphs, ProcessedText(resp, Current))
         /\ LET originalIndex == FindIndex(paragraphs, Current)
            IN paragraphFootnotes' =
                  IF Caveats(resp) # <<>> /\ originalIndex # -1
                  THEN MapSet(paragraphFootnotes, originalIndex, <<Caveats(resp)>>)
                  ELSE paragraphFootnotes
         /\ noted' = IF Caveats(resp) # <<>>
                     THEN MapSet(noted, Position, Caveats(resp)) ELSE noted
    /\ apiCalls' = apiCalls + 1
    /\ Advance
    /\ pc' = "loop"
    /\ UNCHANGED <<limiterVars, paragraphs, apiKey, service, speakerGroups, retries,
                   processedCount, globalProgress, result, latex, tokensTaken,
                   failures, acquisitions, requestVars, callVars, client, sharedVars>>

\* route.ts 265-269, 406 and 444-451: the response parses to null, reading
\* parsedResponse.processed_text throws, and the catch around the whole loop
\* returns the paragraphs as they came
AttemptNullData ==
    /\ pc = "attempt"
    /\ \E resp \in service :
         /\ resp.kind = "null"
         /\ attempts' = Attempted(attempts, FALSE)
         /\ handled' = Handled("thrown", Attempted(attempts, FALSE), resp)
    /\ apiCalls' = apiCalls + 1
    /\ result' = [text |-> Join(paragraphs, <<" ">>), footnotes |-> EmptyMap]
    /\ pc' = "returned"
    /\ UNCHANGED <<limiterVars, paragraphs, apiKey, service, speakerGroups, g, i, retries,
                   processedCount, processedParagraphs, paragraphFootnotes,
                   globalProgress, latex, tokensTaken, failures, noted, acquisitions, requestVars, callVars, client, sharedVars>>

\* route.ts 439-443: every group is done
EnhanceReturns ==
    /\ pc = "loop"
    /\ g > Len(speakerGroups)
    /\ result' = [text |-> Join(processedParagraphs, <<" ">>),
                  footnotes |-> paragraphFootnotes]
    /\ pc' = "returned"
    /\ handled' = NotHandled
    /\ UNCHANGED <<limiterVars, paragraphs, apiKey, service, speakerGroups, g, i, retries,
                   processedCount, processedParagraphs, paragraphFootnotes,
                   globalProgress, latex, tokensTaken, apiCalls, attempts, failures,
                   noted, acquisitions, requestVars, callVars, client, sharedVars>>

\* route.ts 735 and 871: the document is built from what enhance returned
BuildLatex ==
    /\ pc = "returned"
    /\ latex' = GenerateLatexDocument(result.text, result.footnotes)
    /\ pc' = "done"
    /\ UNCHANGED <<limiterVars, paragraphs, apiKey, service, speakerGroups, g, i, retries,
                   processedCount, processedParagraphs, paragraphFootnotes,
                   globalProgress, result, ghostVars, acquisitions, requestVars, callVars, client, sharedVars>>

Next ==
    \/ EnhanceWithoutKey
    \/ EnhanceSetup
    \/ BeginParagraph
    \/ AttemptFailsRetry
    \/ AttemptFailsExhausted
    \/ AttemptSucceeds
    \/ AttemptNullData
    \/ EnhanceReturns
    \/ BuildLatex

Spec == Init /\ [][Next]_vars

\* Every await of a run is on the limiter's timer, the retry timer or the API
\* call; when each of them settles, the event loop resumes the run, so a run
\* that can take a step takes one.
FairSpec == Spec /\ WF_vars(Next)

----------------------------------------------------------------------------
(* Runs against a service that never fails, over longer paragraph lists *)

ReliableInit ==
    /\ RunInit
    /\ paragraphs \in SegmentedLists(MaxReliableParas)
    /\ apiKey \in BOOLEAN
    /\ service = ReliableResponses

ReliableNext ==
    \/ EnhanceWithoutKey
    \/ EnhanceSetup
    \/ BeginParagraph
    \/ AttemptSucceeds
    \/ EnhanceReturns
    \/ BuildLatex

ReliableSpec == ReliableInit /\ [][ReliableNext]_vars

----------------------------------------------------------------------------
(* Runs against a service that gives the same response to every call *)

\* paragraphs in the input list of such a run
MaxParseParas == 1

ParseInit ==
    /\ RunInit
    /\ paragraphs \in SegmentedLists(MaxParseParas)
    /\ apiKey \in BOOLEAN
    /\ service \in { {resp} : resp \in Responses }

ParseSpec == ParseInit /\ [][Next]_vars

----------------------------------------------------------------------------
(* The limiter driven at arbitrary times *)

LimiterInit ==
    /\ RunInit
    /\ paragraphs = <<>>
    /\ apiKey = TRUE
    /\ service = {}

\* the caller pauses for gap ms, then awaits takeToken()
Acquire ==
    /\ Len(acquisitions) < MaxAcquires
    /\ \E gap \in Gaps :
         LET r == TakeToken(tokens, lastRefillTimestamp, now + gap)
         IN /\ now' = r.now
            /\ tokens' = r.tokens
            /\ lastRefillTimestamp' = r.lastRefillTimestamp
            /\ acquisitions' = Append(acquisitions,
                   [called |-> now + gap, admitted |-> r.now, level |-> r.level])
    /\ UNCHANGED <<enhanceVars, ghostVars, requestVars, callVars, client, sharedVars>>

LimiterNext == Acquire

LimiterSpec == LimiterInit /\ [][LimiterNext]_vars

\* calls that follow the burst
MaxLateAcquires == 5

\* by how many ms the timer of route.ts 235 may fire after the computed wait
Lateness == {0, 700}

\* the limiter after MAX_TOKENS calls with no time between them have emptied
\* the full bucket
LateInit ==
    /\ now = 0
    /\ lastRefillTimestamp = 0
    /\ pc = "start"
    /\ paragraphs = <<>>
    /\ apiKey = TRUE
    /\ service = {}
    /\ speakerGroups = <<>>
    /\ g = 1
    /\ i = 1
    /\ retries = 0
    /\ processedCount = 0
    /\ processedParagraphs = <<>>
    /\ paragraphFootnotes = EmptyMap
    /\ globalProgress = 0
    /\ result = NoResult
    /\ latex = <<>>
    /\ tokensTaken = 0
    /\ apiCalls = 0
    /\ attempts = NoAttempts
    /\ failures = 0
    /\ handled = NotHandled
    /\ noted = EmptyMap
    /\ upload = "ok"
    /\ wantsStream = FALSE
    /\ rpc = "none"
    /\ files = {}
    /\ compiled = "none"
    /\ response = NoReply
    /\ frames = <<>>
    /\ writable = TRUE
    /\ cleaned = FALSE
    /\ words = <<>>
    /\ plain = <<>>
    /\ escaped = <<>>
    /\ sentenceList = <<>>
    /\ client = NoClient
    /\ NoRuns
    /\ \E burst \in {[k \in 1..MAX_TOKENS |->
                          [called |-> 0, admitted |-> 0,
                           level |-> (MAX_TOKENS + 1 - k) * TokenUnit, late |-> 0]]} :
         /\ acquisitions = burst
         /\ tokens = burst[MAX_TOKENS].level - TokenUnit

\* the caller pauses for gap ms, then awaits takeToken(); a caller that is
\* suspended is woken late ms after its wait has passed, and lines 236-237
\* then set tokens to 1 and lastRefillTimestamp to the time of waking
AcquireLate ==
    /\ Len(acquisitions) < MAX_TOKENS + MaxLateAcquires
    /\ \E gap \in Gaps :
         LET r == TakeToken(tokens, lastRefillTimestamp, now + gap)
         IN \E late \in (IF r.waited > 0 THEN Lateness ELSE {0}) :
              /\ now' = r.now + late
              /\ tokens' = r.tokens
              /\ lastRefillTimestamp' = r.lastRefillTimestamp + late
              /\ acquisitions' = Append(acquisitions,
                     [called |-> now + gap, admitted |-> r.now + late, level |-> r.level,
                      late |-> late])
    /\ UNCHANGED <<enhanceVars, ghostVars, requestVars, callVars, client, sharedVars>>

LateSpec == LateInit /\ [][AcquireLate]_vars

----------------------------------------------------------------------------
(* The request: POST, route.ts 672-971.  It creates a temporary directory,  *)
(* segments the upload, enhances, builds, writes the .tex file next to the  *)
(* compiler, compiles, and answers: in one response (buffered mode) or      *)
(* with frames on an event stream fed by a background task (streamed mode). *)

\* paragraphs in the upload of a request
MaxRequestParas == 2

\* the temporary paths: os.tmpdir()/clear-notes-<uuid>, cwd/<texFilename>,
\* cwd/<pdfFilename>
TempDir == "tempDir"

TexFile == "texFile"

PdfFile == "pdfFile"

\* the 'transcription' field: absent, a file that is no JSON, a transcript
Uploads == {"none", "no_json", "ok"}

\* ./tectonic exits 0 and leaves the PDF, exits 0 and leaves none, or exits
\* non-zero (execPromise rejects)
CompileOutcomes == {"pdf", "no_pdf", "fails"}

\* NextResponse.json({ error }, { status })
ErrorReply(status, error) ==
    [kind |-> "json", status |-> status, latexContent |-> NoContent, error |-> error]

\* route.ts 13-16: setProcessingStatus(status), where the call is reached
SetProcessingStatus(current, reached, status) == IF reached THEN status ELSE current

\* new Response(stream.readable, ...)
StreamReply == [kind |-> "stream", status |-> 200, latexContent |-> NoContent, error |-> ""]

\* the buffered reply that throws what the catch of route.ts 925-927 caught
BufferedReplyRethrown(pdfSuccess, content) ==
    IF pdfSuccess
    THEN [kind |-> "pdf", status |-> 200, latexContent |-> Base64(content), error |-> ""]
    ELSE ErrorReply(500, "Failed to process transcription")

\* route.ts 929-951: the PDF with the LaTeX in its headers, or the LaTeX in JSON
BufferedReply(pdfSuccess, content) ==
    IF pdfSuccess
    THEN [kind |-> "pdf", status |-> 200, latexContent |-> Base64(content), error |-> ""]
    ELSE [kind |-> "json", status |-> 200, latexContent |-> Base64(content),
          error |-> "PDF compilation failed, but LaTeX is available for download"]

\* the files after writeFile and the compiler: route.ts 753-757, 889-893
Compiled(fs, outcome) ==
    fs \cup {TexFile} \cup (IF outcome = "pdf" THEN {PdfFile} ELSE {})

\* the unlinks of route.ts 787-813 and 908-924: they sit at the end of the try
\* and run only when nothing before them threw
Unlinked(fs, reachedEnd) == IF reachedEnd THEN fs \ {TexFile, PdfFile} ELSE fs

\* the frames with the task's catch writing its frame after every run
StreamFramesErrorAlways(fs, outcome, content, canWrite) ==
    WriteFrame(WriteFrame(fs, CompleteFrame(outcome = "pdf", content), canWrite),
               ErrorFrame, canWrite)

\* The frames the background task of route.ts 750-837 has written when it is
\* through: the try writes the complete frame unless the compiler threw; if
\* the try threw, the catch of 814-825 writes a complete frame without PDF;
\* if that write threw, the catch of 831-837 writes the error frame.
StreamFrames(fs, outcome, content, canWrite) ==
    LET tryThrew   == outcome = "fails" \/ ~canWrite
        afterTry   == IF outcome = "fails" THEN fs
                      ELSE WriteFrame(fs, CompleteFrame(outcome = "pdf", content), canWrite)
        afterCatch == IF tryThrew
                      THEN WriteFrame(afterTry, CompleteFrame(FALSE, content), canWrite)
                      ELSE afterTry
        catchThrew == tryThrew /\ ~canWrite
    IN IF catchThrew THEN WriteFrame(afterCatch, ErrorFrame, canWrite) ELSE afterCatch

RequestInit ==
    /\ now = 0
    /\ tokens = Capacity
    /\ lastRefillTimestamp = 0
    /\ pc = "idle"
    /\ speakerGroups = <<>>
    /\ g = 1
    /\ i = 1
    /\ retries = 0
    /\ processedCount = 0
    /\ processedParagraphs = <<>>
    /\ paragraphFootnotes = EmptyMap
    /\ globalProgress = 0
    /\ result = NoResult
    /\ latex = <<>>
    /\ acquisitions = <<>>
    /\ tokensTaken = 0
    /\ apiCalls = 0
    /\ attempts = NoAttempts
    /\ failures = 0
    /\ handled = NotHandled
    /\ noted = EmptyMap
    /\ service = ReliableResponses
    /\ apiKey \in BOOLEAN
    /\ upload \in Uploads
    /\ paragraphs \in (IF upload = "ok" THEN SegmentedLists(MaxRequestParas) ELSE {<<>>})
    /\ wantsStream \in BOOLEAN
    /\ rpc = "received"
    /\ files = {}
    /\ compiled = "none"
    /\ response = NoReply
    /\ frames = <<>>
    /\ writable = TRUE
    /\ cleaned = FALSE
    /\ words = <<>>
    /\ plain = <<>>
    /\ escaped = <<>>
    /\ sentenceList = <<>>
    /\ client = NoClient
    /\ NoRuns

\* route.ts 675-725 and 855-868: the flag is set, the directory is made and the
\* form read; with no file the reply is 400, with a file that does not parse
\* the catch of 952-959 clears the flag and replies 500; else the run starts,
\* behind a stream in streamed mode
PostReceive ==
    /\ rpc = "received"
    /\ files' = files \cup {TempDir}
    /\ isProcessingActive' = (upload # "no_json")
    /\ CASE upload = "none" ->
              /\ response' = ErrorReply(400, "No transcription file provided")
              /\ rpc' = "returned"
              /\ pc' = pc
         [] upload = "no_json" ->
              /\ response' = ErrorReply(500, "Failed to process transcription")
              /\ rpc' = "returned"
              /\ pc' = pc
         [] OTHER ->
              /\ response' = IF wantsStream THEN StreamReply ELSE response
              /\ rpc' = "running"
              /\ pc' = "start"
    /\ UNCHANGED <<limiterVars, paragraphs, apiKey, service, speakerGroups, g, i, retries,
                   processedCount, processedParagraphs, paragraphFootnotes, globalProgress,
                   result, latex, ghostVars, acquisitions,
                   upload, wantsStream, compiled, frames, writable, cleaned, callVars, client,
                   runs, polled, lastWrite>>

\* route.ts 737-851: the background task compiles, writes its last frame,
\* unlinks what it made, closes the stream, clears the flag (830, or 840 after
\* the error frame has been written) and removes the directory; a write that
\* throws in the catch of 831-840 leaves the task before the flag is cleared
StreamCompile ==
    /\ rpc = "running"
    /\ wantsStream
    /\ pc = "done"
    /\ \E outcome \in CompileOutcomes :
         /\ compiled' = outcome
         /\ frames' = StreamFrames(frames, outcome, latex, writable)
         /\ files' = Unlinked(Compiled(files, outcome), outcome # "fails" /\ writable) \ {TempDir}
    /\ isProcessingActive' = SetProcessingStatus(isProcessingActive, writable, FALSE)
    /\ rpc' = "returned"
    /\ UNCHANGED <<limiterVars, enhanceVars, ghostVars, acquisitions,
                   upload, wantsStream, response, writable, cleaned, callVars, client,
                   runs, polled, lastWrite>>

\* route.ts 873-951: the buffered request compiles, unlinks, clears the flag
\* (940, 949) and replies
BufferedCompile ==
    /\ rpc = "running"
    /\ ~wantsStream
    /\ pc = "done"
    /\ \E outcome \in CompileOutcomes :
         /\ compiled' = outcome
         /\ files' = Unlinked(Compiled(files, outcome), outcome # "fails")
         /\ response' = BufferedReply(outcome = "pdf", latex)
    /\ isProcessingActive' = SetProcessingStatus(isProcessingActive, TRUE, FALSE)
    /\ rpc' = "returned"
    /\ UNCHANGED <<limiterVars, enhanceVars, ghostVars, acquisitions,
                   upload, wantsStream, frames, writable, cleaned, callVars, client,
                   runs, polled, lastWrite>>

\* the client goes away: the stream breaks and every later write throws
ClientDisconnects ==
    /\ rpc = "running"
    /\ wantsStream
    /\ writable
    /\ writable' = FALSE
    /\ UNCHANGED <<limiterVars, enhanceVars, ghostVars, acquisitions,
                   upload, wantsStream, rpc, files, compiled, response, frames, cleaned, callVars, client, sharedVars>>

\* route.ts 960-970: the finally of POST, which in streamed mode runs as soon as
\* the stream has been returned
PostFinally ==
    /\ ~cleaned
    /\ rpc = "returned" \/ (rpc = "running" /\ wantsStream)
    /\ files' = files \ {TempDir}
    /\ cleaned' = TRUE
    /\ UNCHANGED <<limiterVars, enhanceVars, ghostVars, acquisitions,
                   upload, wantsStream, rpc, compiled, response, frames, writable, callVars, client, sharedVars>>

RequestNext ==
    \/ PostReceive
    \/ EnhanceWithoutKey
    \/ EnhanceSetup
    \/ BeginParagraph
    \/ AttemptSucceeds
    \/ EnhanceReturns
    \/ BuildLatex
    \/ StreamCompile
    \/ BufferedCompile
    \/ ClientDisconnects
    \/ PostFinally

RequestSpec == RequestInit /\ [][RequestNext]_vars

----------------------------------------------------------------------------
(* The functions on their own: escapeLatex and generateLatexDocument given  *)
(* arbitrary arguments                                                      *)

\* atoms in a string given to escapeLatex
MaxLen == 3

\* chunks in a text given to generateLatexDocument
MaxChunks == 3

\* every variable of a run but pc, paragraphs, apiKey, service, result and the
\* arguments of the call, as before the run
QuietInit ==
    /\ now = 0
    /\ tokens = Capacity
    /\ lastRefillTimestamp = 0
    /\ speakerGroups = <<>>
    /\ g = 1
    /\ i = 1
    /\ retries = 0
    /\ processedCount = 0
    /\ processedParagraphs = <<>>
    /\ paragraphFootnotes = EmptyMap
    /\ globalProgress = 0
    /\ latex = <<>>
    /\ acquisitions = <<>>
    /\ tokensTaken = 0
    /\ apiCalls = 0
    /\ attempts = NoAttempts
    /\ failures = 0
    /\ handled = NotHandled
    /\ noted = EmptyMap
    /\ upload = "ok"
    /\ wantsStream = FALSE
    /\ rpc = "none"
    /\ files = {}
    /\ compiled = "none"
    /\ response = NoReply
    /\ frames = <<>>
    /\ writable = TRUE
    /\ cleaned = FALSE

\* the strings of up to maxLen atoms
Strings(atoms, maxLen) == UNION { [1..n -> atoms] : n \in 0..maxLen }

\* a percent sign, a backslash and two words
EscapeAtoms == {"%", "\\", "50", " done"}

EscapeInit ==
    /\ QuietInit
    /\ pc = "escape"
    /\ paragraphs = <<>>
    /\ apiKey = TRUE
    /\ service = {}
    /\ result = NoResult
    /\ words = <<>>
    /\ plain \in Strings(EscapeAtoms, MaxLen)
    /\ escaped = <<>>
    /\ sentenceList = <<>>
    /\ client = NoClient
    /\ NoRuns

\* route.ts 458-466: escapeLatex(text) is called
EscapeCall ==
    /\ pc = "escape"
    /\ escaped' = EscapeLatex(plain)
    /\ pc' = "escaped"
    /\ UNCHANGED <<limiterVars, paragraphs, apiKey, service, speakerGroups, g, i, retries,
                   processedCount, processedParagraphs, paragraphFootnotes, globalProgress,
                   result, latex, ghostVars, acquisitions, requestVars, words, plain, sentenceList, sharedVars, client>>

EscapeNext == EscapeCall

EscapeSpec == EscapeInit /\ [][EscapeNext]_vars

\* the chunks of a text: with the marker of speaker 1 or 2 or with none, with a
\* word or a percent sign as content, or empty
BuilderChunks ==
    { m \o b : m \in {<<"[Speaker 1]:", " ">>, <<"[Speaker 2]:", " ">>, <<>>},
               b \in {<<"a">>, <<"%">>} } \cup {<<>>}

BuilderTexts(maxChunks) ==
    { Join(cs, <<"\n">>) : cs \in UNION { [1..n -> BuilderChunks] : n \in 1..maxChunks } }

\* footnote maps over the indices below n: a caveat, or an empty string
FootnoteMaps(n) ==
    UNION { [D -> { <<<<"c", "%">>>>, <<<<>>>> }] : D \in SUBSET (0..(n - 1)) }

BuilderInit ==
    /\ QuietInit
    /\ pc = "returned"
    /\ paragraphs = <<>>
    /\ apiKey = TRUE
    /\ service = {}
    /\ result \in [text : BuilderTexts(MaxChunks), footnotes : FootnoteMaps(MaxChunks)]
    /\ words = <<>>
    /\ plain = <<>>
    /\ escaped = <<>>
    /\ sentenceList = <<>>
    /\ client = NoClient
    /\ NoRuns

BuilderNext == BuildLatex

BuilderSpec == BuilderInit /\ [][BuilderNext]_vars

----------------------------------------------------------------------------
(* Segmentation: processTranscription, route.ts 123-196.  A word's text is  *)
(* a string of atoms: a word, a run of digits, a blank, a period.  The      *)
(* placeholders ___ELLIPSIS___, ___ABBR___ and ___DECIMAL___ of 153-159 are *)
(* atoms of word characters.                                                *)

\* words in a transcript
MaxWords == 4

\* the characters that end a sentence: [.!?]
Terminators == {".", "!", "?"}

\* the atoms that start with an upper-case letter: [A-Z]
UpperCase == {"A", "B", "E", "Dr", "He", "Smith", "Pi", "Done"}

\* (Mr|Mrs|Ms|Dr|Prof|Inc|Ltd|Co|St|Ave|Blvd|Rd|Hwy|Fig|Eq)
Abbreviations ==
    {"Mr", "Mrs", "Ms", "Dr", "Prof", "Inc", "Ltd", "Co", "St", "Ave", "Blvd", "Rd", "Hwy",
     "Fig", "Eq"}

\* the runs of digits: \d+
Digits == {"3", "14"}

\* the atoms that are no word characters (\W): a \b lies between one of them
\* and a word character, and at the start of the text
NonWord == Whitespace \cup Terminators \cup {"|", ","}

SentencesPerParagraph == 10

\* item.speaker_id || 'unknown_speaker'
SpeakerOf(item) == IF item.speaker_id = "" THEN "unknown_speaker" ELSE item.speaker_id

\* the items that are no audio events
Spoken(items) == SelectSeq(items, LAMBDA item : item.type # "audio_event")

\* the keys of wordsBySpeaker, in the order they were first set
RECURSIVE SpeakersOf(_, _)
SpeakersOf(items, seen) ==
    IF items = <<>> THEN seen
    ELSE IF \E k \in DOMAIN seen : seen[k] = SpeakerOf(Head(items))
         THEN SpeakersOf(Tail(items), seen)
         ELSE SpeakersOf(Tail(items), Append(seen, SpeakerOf(Head(items))))

\* the number a key is the canonical form of, -1 when the key is no array index
IndexValue(key) ==
    CASE key = "3" -> 3
      [] key = "10" -> 10
      [] OTHER -> -1

\* for (const speakerId in wordsBySpeaker): the keys that are array indices in
\* ascending numeric order, then the other keys in insertion order
ForInOrder(keys) ==
    LET indices == { k \in DOMAIN keys : IndexValue(keys[k]) >= 0 }
        Rank(k) == Cardinality({ j \in indices : IndexValue(keys[j]) < IndexValue(keys[k]) }) + 1
        sorted  == [r \in 1..Cardinality(indices) |-> keys[CHOOSE k \in indices : Rank(k) = r]]
    IN sorted \o SelectSeq(keys, LAMBDA key : IndexValue(key) < 0)

\* speakerWords.map(item => item.text).join('')
SpeakerText(items, speakerId) ==
    LET speakerWords == SelectSeq(items, LAMBDA item : SpeakerOf(item) = speakerId)
    IN Flatten([k \in DOMAIN speakerWords |-> speakerWords[k].text])

\* unidecode(speakerText): non-ASCII characters become their ASCII look-alikes
Unidecode(str) ==
    [k \in DOMAIN str |->
        CASE str[k] = "É" -> "E"
          [] str[k] = "é" -> "e"
          [] OTHER -> str[k]]

\* the number of atoms of the set that str starts with: \.{n}, \d+
RECURSIVE Run(_, _)
Run(str, atoms) == IF str # <<>> /\ Head(str) \in atoms THEN 1 + Run(Tail(str), atoms) ELSE 0

Drop(str, n) == SubSeq(str, n + 1, Len(str))

\* .replace(/\.{3,}/g, '___ELLIPSIS___')
RECURSIVE CollapseEllipses(_)
CollapseEllipses(str) ==
    IF str = <<>> THEN <<>>
    ELSE LET n == Run(str, {"."})
         IN IF n >= 3 THEN <<"___ELLIPSIS___">> \o CollapseEllipses(Drop(str, n))
            ELSE IF n > 0 THEN SubSeq(str, 1, n) \o CollapseEllipses(Drop(str, n))
            ELSE <<Head(str)>> \o CollapseEllipses(Tail(str))

\* .replace(/\b(Mr|...|Eq)\./g, '$1___ABBR___'); prev is the atom before str in
\* the text being searched, a blank at the start of the text
RECURSIVE ProtectAbbreviations(_, _)
ProtectAbbreviations(str, prev) ==
    IF str = <<>> THEN <<>>
    ELSE IF /\ Head(str) \in Abbreviations
            /\ prev \in NonWord
            /\ Len(str) >= 2
            /\ str[2] = "."
         THEN <<Head(str), "___ABBR___">> \o ProtectAbbreviations(Drop(str, 2), ".")
         ELSE <<Head(str)>> \o ProtectAbbreviations(Tail(str), Head(str))

\* .replace(/\b\d+\.\d+/g, match => match.replace('.', '___DECIMAL___'))
RECURSIVE ProtectDecimals(_, _)
ProtectDecimals(str, prev) ==
    IF str = <<>> THEN <<>>
    ELSE LET n == Run(str, Digits)
             m == Run(Drop(str, n + 1), Digits)
         IN IF /\ n > 0
               /\ prev \in NonWord
               /\ Len(str) >= n + 2
               /\ str[n + 1] = "."
               /\ m > 0
            THEN SubSeq(str, 1, n) \o <<"___DECIMAL___">> \o SubSeq(str, n + 2, n + 1 + m)
                 \o ProtectDecimals(Drop(str, n + 1 + m), str[n + 1 + m])
            ELSE <<Head(str)>> \o ProtectDecimals(Tail(str), Head(str))

\* route.ts 170-173: the placeholders become '...' and '.' again
RECURSIVE Restore(_)
Restore(sentence) ==
    IF sentence = <<>> THEN <<>>
    ELSE (CASE Head(sentence) = "___ELLIPSIS___" -> <<".", ".", ".">>
            [] Head(sentence) \in {"___ABBR___", "___DECIMAL___"} -> <<".">>
            [] OTHER -> <<Head(sentence)>>) \o Restore(Tail(sentence))

\* the replaces of route.ts 164-166: a '|' after a terminator, in place of the
\* whitespace before an upper-case letter, and after a terminator at the end
RECURSIVE MarkSentences(_)
MarkSentences(str) ==
    IF str = <<>> THEN <<>>
    ELSE IF Head(str) \in Terminators
         THEN LET rest  == Tail(str)
                  after == TrimStart(rest)
              IN IF rest = <<>> THEN <<Head(str), "|">>
                 ELSE IF after # rest /\ after # <<>> /\ Head(after) \in UpperCase
                      THEN <<Head(str), "|">> \o MarkSentences(after)
                      ELSE <<Head(str)>> \o MarkSentences(rest)
         ELSE <<Head(str)>> \o MarkSentences(Tail(str))

\* route.ts 162-175: the sentences of a protected text
SplitSentences(processedText) ==
    LET parts == Split(MarkSentences(processedText), "|")
    IN SelectSeq([k \in DOMAIN parts |-> Restore(parts[k])],
                 LAMBDA sentence : Trim(sentence) # <<>>)

\* route.ts 153-175: the text is protected (processedText), then split
Sentences(str) ==
    SplitSentences(ProtectDecimals(ProtectAbbreviations(CollapseEllipses(str), " "), " "))

\* slices of one sentence less
RECURSIVE ParagraphsFromShort(_, _)
ParagraphsFromShort(sentences, speakerPrefix) ==
    IF sentences = <<>> THEN <<>>
    ELSE LET n         == Min(SentencesPerParagraph - 1, Len(sentences))
             paragraph == Join(SubSeq(sentences, 1, n), <<" ">>)
             rest      == ParagraphsFromShort(SubSeq(sentences, n + 1, Len(sentences)),
                                              speakerPrefix)
         IN IF Trim(paragraph) # <<>> THEN <<speakerPrefix \o paragraph>> \o rest ELSE rest

\* the loop of route.ts 180-193: slices of 10 sentences joined by blanks, each
\* with the speaker's prefix
RECURSIVE ParagraphsFrom(_, _)
ParagraphsFrom(sentences, speakerPrefix) ==
    IF sentences = <<>> THEN <<>>
    ELSE LET n         == Min(SentencesPerParagraph, Len(sentences))
             paragraph == Join(SubSeq(sentences, 1, n), <<" ">>)
             rest      == ParagraphsFrom(SubSeq(sentences, n + 1, Len(sentences)), speakerPrefix)
         IN IF Trim(paragraph) # <<>> THEN <<speakerPrefix \o paragraph>> \o rest ELSE rest

ProcessTranscription(items) ==
    LET spoken   == Spoken(items)
        speakers == ForInOrder(SpeakersOf(spoken, <<>>))
    IN Flatten([k \in DOMAIN speakers |->
                  ParagraphsFrom(Sentences(Unidecode(SpeakerText(spoken, speakers[k]))),
                                 SpeakerPrefix(speakers[k]))])

----------------------------------------------------------------------------
(* The pipeline from the transcript to the document, with an enhancement    *)
(* service that answers every prompt with a paragraph as it came            *)

\* the items of a transcript: words of two speakers and an audio event
TranscriptItems ==
    [type : {"word"}, speaker_id : {"speaker_1", "speaker_2"}, text : {<<"A">>, <<" ">>, <<".">>}]
    \cup [type : {"audio_event"}, speaker_id : {"speaker_1"}, text : {<<"(laughter)">>}]

Transcripts(maxWords) == UNION { [1..n -> TranscriptItems] : n \in 0..maxWords }

\* the answers of a service that passes paragraphs through
EchoService(ps) ==
    { [kind |-> "json", processed_text |-> ps[k], caveats |-> <<>>] : k \in DOMAIN ps }

EndToEndInit ==
    /\ QuietInit
    /\ pc = "segment"
    /\ paragraphs = <<>>
    /\ apiKey = TRUE
    /\ words \in Transcripts(MaxWords)
    /\ service = EchoService(ProcessTranscription(words))
    /\ result = NoResult
    /\ plain = <<>>
    /\ escaped = <<>>
    /\ sentenceList = <<>>
    /\ client = NoClient
    /\ NoRuns

\* route.ts 702: the transcript is segmented
Segment ==
    /\ pc = "segment"
    /\ paragraphs' = ProcessTranscription(words)
    /\ pc' = "start"
    /\ UNCHANGED <<limiterVars, apiKey, service, speakerGroups, g, i, retries,
                   processedCount, processedParagraphs, paragraphFootnotes, globalProgress,
                   result, latex, ghostVars, acquisitions, requestVars, callVars, client, sharedVars>>

EndToEndNext ==
    \/ Segment
    \/ EnhanceSetup
    \/ BeginParagraph
    \/ AttemptSucceeds
    \/ EnhanceReturns
    \/ BuildLatex

EndToEndSpec == EndToEndInit /\ [][EndToEndNext]_vars

----------------------------------------------------------------------------
(* processTranscription and its sentence splitter given arbitrary arguments *)

\* words in a transcript given to processTranscription
MaxSegmentWords == 3

\* pieces in a text given to the sentence splitter
MaxPieces == 4

\* the texts of a word: a word, a blank and a word, a period, a blank, and the
\* six sentences "A. A. A. A. A. A. "
SegmentTexts ==
    { <<"A">>, <<" ", "é">>, <<".">>, <<" ">>, Flatten([k \in 1..6 |-> <<"A", ".", " ">>]) }

\* speaker_id: a diarization label, an array index, or none
SegmentItems ==
    [type : {"word"}, speaker_id : {"speaker_1", "3", ""}, text : SegmentTexts]
    \cup [type : {"audio_event"}, speaker_id : {"speaker_1"}, text : {<<"(laughter)">>}]

SegmentInit ==
    /\ QuietInit
    /\ pc = "segment"
    /\ paragraphs = <<>>
    /\ apiKey = TRUE
    /\ service = {}
    /\ words \in UNION { [1..n -> SegmentItems] : n \in 0..MaxSegmentWords }
    /\ result = NoResult
    /\ plain = <<>>
    /\ escaped = <<>>
    /\ sentenceList = <<>>
    /\ client = NoClient
    /\ NoRuns

SegmentSpec == SegmentInit /\ [][Segment]_vars

\* the pieces of a text: an ellipsis, an abbreviation with its period, a
\* decimal number, terminators, a blank, words and a vertical bar
SplitPieces ==
    { <<".", ".", ".">>, <<"Dr", ".">>, <<"3", ".", "14">>, <<".">>, <<"!">>, <<" ">>,
      <<"A">>, <<"a">>, <<"|">> }

SplitInit ==
    /\ QuietInit
    /\ pc = "split"
    /\ paragraphs = <<>>
    /\ apiKey = TRUE
    /\ service = {}
    /\ words = <<>>
    /\ result = NoResult
    /\ plain \in { Flatten(ps) : ps \in UNION { [1..n -> SplitPieces] : n \in 0..MaxPieces } }
    /\ escaped = <<>>
    /\ sentenceList = <<>>
    /\ client = NoClient
    /\ NoRuns

\* route.ts 153-175: the speaker's text is split into sentences
SplitCall ==
    /\ pc = "split"
    /\ sentenceList' = Sentences(plain)
    /\ pc' = "sentences"
    /\ UNCHANGED <<limiterVars, paragraphs, apiKey, service, speakerGroups, g, i, retries,
                   processedCount, processedParagraphs, paragraphFootnotes, globalProgress,
                   result, latex, ghostVars, acquisitions, requestVars, words, plain, escaped,
                   sharedVars, client>>

SplitSpec == SplitInit /\ [][SplitCall]_vars

----------------------------------------------------------------------------
(* Concurrent requests in one process.  The handlers run on one thread and  *)
(* interleave at their awaits: a run's steps between two awaits are one     *)
(* action.  The runs share globalProgress and isProcessingActive           *)
(* (route.ts 5-16); GET (18-24) reads them.                                 *)

\* concurrent runs
MaxRuns == 2

\* paragraphs of a run
MaxRunParas == 2

\* a sink that never goes back
UpdateGlobalProgressKeepsMax(current, progress) ==
    IF progress > current THEN progress ELSE current

\* route.ts 9-11: globalProgress = progress
UpdateGlobalProgress(current, progress) == progress

ConcurrentInit ==
    /\ QuietInit
    /\ pc = "serving"
    /\ paragraphs = <<>>
    /\ apiKey = TRUE
    /\ service = {}
    /\ result = NoResult
    /\ words = <<>>
    /\ plain = <<>>
    /\ escaped = <<>>
    /\ sentenceList = <<>>
    /\ client = NoClient
    /\ isProcessingActive = FALSE
    /\ runs \in [1..MaxRuns -> [at : {"idle"}, processedCount : {0},
                                totalParagraphs : 0..MaxRunParas]]
    /\ polled = NoPoll
    /\ lastWrite = NoWrite

\* route.ts 676-682: POST resets the progress and sets the flag, then awaits
PostStart(r) ==
    /\ runs[r].at = "idle"
    /\ globalProgress' = UpdateGlobalProgress(globalProgress, 0)
    /\ lastWrite' = [by |-> r, value |-> 0]
    /\ isProcessingActive' = TRUE
    /\ runs' = [runs EXCEPT ![r].at = "enhancing"]
    /\ UNCHANGED <<limiterVars, paragraphs, apiKey, service, pc, speakerGroups, g, i, retries,
                   processedCount, processedParagraphs, paragraphFootnotes, result, latex,
                   ghostVars, acquisitions, requestVars, callVars, client, polled>>

\* route.ts 393-398: the loop counts the paragraph and reports, then awaits
ReportProgress(r) ==
    /\ runs[r].at = "enhancing"
    /\ runs[r].processedCount < runs[r].totalParagraphs
    /\ LET progress == Progress(runs[r].processedCount + 1, runs[r].totalParagraphs)
       IN /\ globalProgress' = UpdateGlobalProgress(globalProgress, progress)
          /\ lastWrite' = [by |-> r, value |-> progress]
    /\ runs' = [runs EXCEPT ![r].processedCount = @ + 1]
    /\ UNCHANGED <<limiterVars, paragraphs, apiKey, service, pc, speakerGroups, g, i, retries,
                   processedCount, processedParagraphs, paragraphFootnotes, result, latex,
                   ghostVars, acquisitions, requestVars, callVars, client, isProcessingActive, polled>>

\* route.ts 827, 929 and 947: the run ends and clears the flag
PostEnd(r) ==
    /\ runs[r].at = "enhancing"
    /\ runs[r].processedCount = runs[r].totalParagraphs
    /\ isProcessingActive' = FALSE
    /\ runs' = [runs EXCEPT ![r].at = "done"]
    /\ UNCHANGED <<limiterVars, enhanceVars, ghostVars, acquisitions, requestVars, callVars, client,
                   polled, lastWrite>>

\* route.ts 18-24: GET
Poll ==
    /\ polled' = [progress |-> globalProgress, isProcessingActive |-> isProcessingActive]
    /\ UNCHANGED <<limiterVars, enhanceVars, ghostVars, acquisitions, requestVars, callVars, client,
                   isProcessingActive, runs, lastWrite>>

ConcurrentNext ==
    \/ \E r \in DOMAIN runs : PostStart(r) \/ ReportProgress(r) \/ PostEnd(r)
    \/ Poll

ConcurrentSpec == ConcurrentInit /\ [][ConcurrentNext]_vars

----------------------------------------------------------------------------
(* The intermediate files of concurrent requests.  Every request writes its *)
(* .tex file into process.cwd(), the compiler leaves the .pdf next to it,   *)
(* and the request reads and unlinks them (route.ts 737-813, 873-924); the  *)
(* steps of a request are separated by awaits and interleave with those of  *)
(* the other requests.  A file on disk is [path, by]: by is the request     *)
(* whose write put the content there; runs[r].touched collects the requests *)
(* whose files request r has read, overwritten or deleted.                  *)

\* transcriptionFile.name of the uploads, as base and extension
UploadNames == { <<"talk", ".json">>, <<"talk", ".txt">>, <<"memo", ".json">> }

\* route.ts 738-742: `${baseFilename}_${datePart}.${ext}`; baseFilename is the
\* name without its last extension, datePart the UTC time cut at the second
FileName(name, t, ext) ==
    [base |-> SubSeq(name, 1, Len(name) - 1), datePart |-> t \div 1000, ext |-> ext]

\* who wrote the file at path, if there is one
WritersOf(fs, path) == { f.by : f \in { h \in fs : h.path = path } }

\* writeFile(path, ...) by request r: creates the file or replaces its content
WriteFile(fs, path, r) == { f \in fs : f.path # path } \cup {[path |-> path, by |-> r]}

\* unlink(path)
Unlink(fs, path) == { f \in fs : f.path # path }

FilesInit ==
    /\ QuietInit
    /\ pc = "serving"
    /\ paragraphs = <<>>
    /\ apiKey = TRUE
    /\ service = {}
    /\ result = NoResult
    /\ words = <<>>
    /\ plain = <<>>
    /\ escaped = <<>>
    /\ sentenceList = <<>>
    /\ client = NoClient
    /\ isProcessingActive = FALSE
    /\ runs \in [1..MaxRuns -> [at : {"built"}, name : UploadNames, texFilename : {<<>>},
                                pdfFilename : {<<>>}, touched : {{}}]]
    /\ polled = NoPoll
    /\ lastWrite = NoWrite

\* route.ts 737-742 and 873-878: the document is built and the files are named
\* after the upload and the clock, which may have reached the next second
NameFiles(r) ==
    /\ runs[r].at = "built"
    /\ \E t \in {now, now + 1000} :
         /\ now' = t
         /\ runs' = [runs EXCEPT ![r].at = "named",
                                 ![r].texFilename = FileName(runs[r].name, t, "tex"),
                                 ![r].pdfFilename = FileName(runs[r].name, t, "pdf")]
    /\ UNCHANGED <<tokens, lastRefillTimestamp, enhanceVars, ghostVars, acquisitions,
                   requestVars, callVars, client, isProcessingActive, polled, lastWrite>>

\* route.ts 753 and 889: await writeFile(texFilePath, latexContent)
WriteTex(r) ==
    /\ runs[r].at = "named"
    /\ files' = WriteFile(files, runs[r].texFilename, r)
    /\ runs' = [runs EXCEPT ![r].at = "written",
                            ![r].touched = @ \cup (WritersOf(files, runs[r].texFilename) \ {r})]
    /\ UNCHANGED <<limiterVars, enhanceVars, ghostVars, acquisitions, upload, wantsStream, rpc,
                   compiled, response, frames, writable, cleaned, callVars, client,
                   isProcessingActive, polled, lastWrite>>

\* route.ts 757 and 893: ./tectonic reads the .tex file and exits 0 with or
\* without a PDF, or fails (it does if the file is gone); a failure is caught
\* at 814 and 925, past the unlinks
Compile(r) ==
    /\ runs[r].at = "written"
    /\ LET tex == runs[r].texFilename
           pdf == runs[r].pdfFilename
       IN \E outcome \in (IF WritersOf(files, tex) = {} THEN {"fails"} ELSE CompileOutcomes) :
            /\ files' = IF outcome = "pdf" THEN WriteFile(files, pdf, r) ELSE files
            /\ runs' = [runs EXCEPT
                   ![r].at = IF outcome = "fails" THEN "done" ELSE "compiled",
                   ![r].touched = @ \cup (WritersOf(files, tex) \ {r})
                                    \cup (IF outcome = "pdf" THEN WritersOf(files, pdf) \ {r}
                                          ELSE {})]
    /\ UNCHANGED <<limiterVars, enhanceVars, ghostVars, acquisitions, upload, wantsStream, rpc,
                   compiled, response, frames, writable, cleaned, callVars, client,
                   isProcessingActive, polled, lastWrite>>

\* route.ts 764-768 and 900-904: if (fs.existsSync(generatedPdfPath)) the PDF is read
ReadPdf(r) ==
    /\ runs[r].at = "compiled"
    /\ LET readers == WritersOf(files, runs[r].pdfFilename)
       IN runs' = [runs EXCEPT ![r].at = IF readers = {} THEN "unlinkTex" ELSE "unlinkPdf",
                               ![r].touched = @ \cup (readers \ {r})]
    /\ UNCHANGED <<limiterVars, enhanceVars, ghostVars, acquisitions, requestVars, callVars, client,
                   isProcessingActive, polled, lastWrite>>

\* route.ts 787-793 and 908-914: unlink(generatedPdfPath); an unlink that
\* throws is logged
UnlinkPdf(r) ==
    /\ runs[r].at = "unlinkPdf"
    /\ files' = Unlink(files, runs[r].pdfFilename)
    /\ runs' = [runs EXCEPT ![r].at = "unlinkTex",
                            ![r].touched = @ \cup (WritersOf(files, runs[r].pdfFilename) \ {r})]
    /\ UNCHANGED <<limiterVars, enhanceVars, ghostVars, acquisitions, upload, wantsStream, rpc,
                   compiled, response, frames, writable, cleaned, callVars, client,
                   isProcessingActive, polled, lastWrite>>

\* route.ts 807-813 and 919-924: unlink(texFilePath)
UnlinkTex(r) ==
    /\ runs[r].at = "unlinkTex"
    /\ files' = Unlink(files, runs[r].texFilename)
    /\ runs' = [runs EXCEPT ![r].at = "done",
                            ![r].touched = @ \cup (WritersOf(files, runs[r].texFilename) \ {r})]
    /\ UNCHANGED <<limiterVars, enhanceVars, ghostVars, acquisitions, upload, wantsStream, rpc,
                   compiled, response, frames, writable, cleaned, callVars, client,
                   isProcessingActive, polled, lastWrite>>

FilesNext ==
    \/ \E r \in DOMAIN runs : NameFiles(r)
    \/ \E r \in DOMAIN runs : WriteTex(r)
    \/ \E r \in DOMAIN runs : Compile(r)
    \/ \E r \in DOMAIN runs : ReadPdf(r)
    \/ \E r \in DOMAIN runs : UnlinkPdf(r)
    \/ \E r \in DOMAIN runs : UnlinkTex(r)

FilesSpec == FilesInit /\ [][FilesNext]_vars

----------------------------------------------------------------------------
(* The page reading the event stream: part_000 536-625.  The frames of      *)
(* route.ts 714-837 travel as one byte stream, which reader.read() hands    *)
(* over in chunks cut anywhere.  A string is a sequence of atoms; each line *)
(* break is an atom, and the JSON text of a frame is cut into atoms so that *)
(* a chunk may end inside it.                                               *)

\* paragraphs of the run whose stream the page reads
MaxClientParas == 2

\* JSON.stringify of the object of a frame (route.ts 714, 777-784, 798-803,
\* 834-836), the base64 contents left out; a progress value is written in
\* digits
Stringify(frame) ==
    LET digits == CASE frame.progress = 0 -> "0"
                    [] frame.progress = 25 -> "25"
                    [] frame.progress = 33 -> "33"
                    [] frame.progress = 50 -> "50"
                    [] frame.progress = 67 -> "67"
                    [] frame.progress = 75 -> "75"
                    [] frame.progress = 100 -> "100"
                    [] OTHER -> "NaN"
    IN CASE frame.kind = "progress" -> <<"{\"progress\":", digits, "}">>
         [] frame.kind = "complete" ->
               <<"{\"complete\":true,", "\"pdfAvailable\":",
                 IF frame.pdfAvailable THEN "true" ELSE "false", "}">>
         [] OTHER -> <<"{\"error\":", "\"Failed to process transcription\"", "}">>

\* `data: ${JSON.stringify(...)}\n\n`
Message(frame) == <<"data: ">> \o Stringify(frame) \o <<"\n", "\n">>

\* the frames of a run over n paragraphs: the n progress frames, then a
\* complete frame, an error frame, or nothing if the stream ends there
ServerFrames(maxParas) ==
    { [k \in 1..n |-> ProgressFrame(Progress(k, n))] \o last :
        n \in 0..maxParas,
        last \in { <<>>, <<ErrorFrame>>, <<CompleteFrame(TRUE, <<>>)>>,
                   <<CompleteFrame(FALSE, <<>>)>> } }

\* JSON.parse: the object whose JSON text this is, or a failure
ParseJson(str) ==
    LET objects == { ProgressFrame(p) : p \in {0, 25, 33, 50, 67, 75, 100} }
                   \cup { ErrorFrame, CompleteFrame(TRUE, <<>>), CompleteFrame(FALSE, <<>>) }
    IN IF \E frame \in objects : Stringify(frame) = str
       THEN CHOOSE frame \in objects : Stringify(frame) = str
       ELSE [kind |-> "SyntaxError"]

\* buffer.split('\n\n')
RECURSIVE SplitMessages(_, _)
SplitMessages(str, cur) ==
    IF str = <<>> THEN <<cur>>
    ELSE IF Len(str) >= 2 /\ str[1] = "\n" /\ str[2] = "\n"
         THEN <<cur>> \o SplitMessages(Drop(str, 2), <<>>)
         ELSE SplitMessages(Tail(str), Append(cur, Head(str)))

\* message.match(/^data: (.+)$/m)[1], <<>> for no match
DataMatch(message) ==
    LET lines == SelectSeq(Split(message, "\n"),
                           LAMBDA line : Len(line) >= 2 /\ Head(line) = "data: ")
    IN IF lines = <<>> THEN <<>> ELSE Tail(lines[1])

\* the buffer that keeps nothing between two reads
KeptNothing(messages) == <<>>

\* buffer = messages.pop() || ''
Kept(messages) == messages[Len(messages)]

\* part_000 555-617: the body of the for loop for one message
HandleMessage(page, message) ==
    LET data == ParseJson(DataMatch(message))
    IN IF Trim(message) = <<>> \/ DataMatch(message) = <<>> \/ data.kind = "SyntaxError"
       THEN page
       ELSE [page EXCEPT
               !.data = Append(@, data),
               !.progress = CASE data.kind = "progress" -> data.progress
                              [] data.kind = "complete" -> 100
                              [] OTHER -> @,
               !.isProcessing = IF data.kind \in {"complete", "error"} THEN FALSE ELSE @]

RECURSIVE HandleMessages(_, _)
HandleMessages(page, messages) ==
    IF messages = <<>> THEN page
    ELSE HandleMessages(HandleMessage(page, Head(messages)), Tail(messages))

ClientInit ==
    /\ QuietInit
    /\ pc = "streaming"
    /\ paragraphs = <<>>
    /\ apiKey = TRUE
    /\ service = {}
    /\ result = NoResult
    /\ words = <<>>
    /\ plain = <<>>
    /\ escaped = <<>>
    /\ sentenceList = <<>>
    /\ NoRuns
    /\ \E sent \in ServerFrames(MaxClientParas) :
         client = [sent |-> sent,
                   wire |-> Flatten([k \in DOMAIN sent |-> Message(sent[k])]), reads |-> 0,
                   buffer |-> <<>>, data |-> <<>>, progress |-> 0, isProcessing |-> TRUE]

\* part_000 541-553: reader.read() hands over the next n atoms of the stream;
\* they are appended to the buffer, the buffer is cut at the empty lines, the
\* last piece is kept and the others are handled in order
Read ==
    /\ \E n \in 1..Len(client.wire) :
         LET messages == SplitMessages(client.buffer \o SubSeq(client.wire, 1, n), <<>>)
             page     == HandleMessages(client, SubSeq(messages, 1, Len(messages) - 1))
         IN client' = [page EXCEPT !.wire = Drop(client.wire, n),
                                   !.reads = @ + 1,
                                   !.buffer = Kept(messages)]
    /\ UNCHANGED <<limiterVars, enhanceVars, ghostVars, acquisitions, requestVars, callVars,
                   sharedVars>>

ClientSpec == ClientInit /\ [][Read]_vars

----------------------------------------------------------------------------
(* Properties *)

\* the loop's indices g, i name the paragraph the observations name
PositionIsCurrent ==
    pc = "attempt" => Current = paragraphs[Position + 1]

Last(seq) == seq[Len(seq)]

\* the last step finished handling a paragraph
JustHandled == handled.outcome # "none"

\* C1: a paragraph whose attempts all fail got exactly 4 API calls, its output
\* text is its original text, the footnote "Failed to process paragraph after
\* multiple retries." is recorded under its index, and the loop goes on.
C1_ExhaustedKeepsOriginal ==
    (JustHandled /\ handled.failed = handled.calls) =>
        /\ handled.calls = 4
        /\ pc = "loop"
        /\ Last(processedParagraphs) = paragraphs[handled.pos + 1]
        /\ handled.pos \in DOMAIN paragraphFootnotes
        /\ paragraphFootnotes[handled.pos] = <<FailedNote>>

StartsWith(text, start) ==
    Len(start) <= Len(text) /\ SubSeq(text, 1, Len(start)) = start

\* C3: a paragraph's failure (a throwing call, an unparseable response, or a
\* response that parses to no object) stays with that paragraph: what enhance
\* returns still holds the texts and footnotes of the paragraphs handled before,
\* and a footnote for the failed paragraph.
C3_FailureContained ==
    /\ (pc = "returned" /\ apiKey) =>
        /\ StartsWith(result.text, Join(processedParagraphs, <<" ">>))
        /\ \A k \in DOMAIN paragraphFootnotes :
              k \in DOMAIN result.footnotes /\ result.footnotes[k] = paragraphFootnotes[k]
    /\ (handled.outcome \in {"exhausted", "thrown"} \/ handled.resp.kind = "scalar") =>
          LET notes == IF pc = "returned" THEN result.footnotes ELSE paragraphFootnotes
          IN \E k \in DOMAIN notes : paragraphs[k + 1] = paragraphs[handled.pos + 1]

Window == RefillSeconds * 1000

\* C4: no more than 15 acquisitions complete within any 60-second window: the
\* first and the last of any 16 consecutive ones are at least 60 s apart.
C4_AtMost15PerWindow ==
    \A j, k \in DOMAIN acquisitions :
        k - j >= MAX_TOKENS => acquisitions[k].admitted - acquisitions[j].admitted >= Window

\* C5: the bucket level is always between 0 and the capacity, and at the
\* moment a call is admitted it is between 1 token and the capacity.
C5_TokensWithinBucket ==
    /\ tokens >= 0
    /\ tokens <= Capacity
    /\ \A k \in DOMAIN acquisitions :
          acquisitions[k].level >= TokenUnit /\ acquisitions[k].level <= Capacity

\* C5's case: one call admitted from a full bucket, one after a wait with
\* exactly one token
C5_Witness ==
    /\ \E k \in DOMAIN acquisitions : acquisitions[k].level = Capacity
    /\ \E k \in DOMAIN acquisitions :
          /\ acquisitions[k].admitted > acquisitions[k].called
          /\ acquisitions[k].level = TokenUnit
    /\ tokens = 0

\* the first n calls came with no time passing between them
BackToBack(n) ==
    \A k \in 1..n :
        acquisitions[k].called = (IF k = 1 THEN 0 ELSE acquisitions[k - 1].admitted)

\* C6: from a full bucket with no time between the calls, the first 15 calls
\* return at once and the 16th waits 4 seconds and leaves the bucket empty.
C6_SixteenthWaitsFourSeconds ==
    \A n \in DOMAIN acquisitions :
        BackToBack(n) =>
            /\ n <= 15 => acquisitions[n].admitted = acquisitions[n].called
            /\ n = 16 => /\ acquisitions[n].admitted - acquisitions[n].called = 4000
                         /\ acquisitions[n].level - TokenUnit = 0

\* C6's case: the 16th of 16 back-to-back calls has been admitted
C6_Witness ==
    /\ Len(acquisitions) >= 16
    /\ BackToBack(16)
    /\ acquisitions[16].admitted = 4000

\* C7: every API call, retries included, is throttled: the calls issued so
\* far never outnumber the tokens acquired so far.
C7_CallsThrottled == apiCalls <= tokensTaken

\* C8: enhance yields one output per input paragraph, in the order of the
\* input list: the k-th output is that of the k-th paragraph, and the returned
\* text is the outputs joined by single blanks.
C8_OutputsInInputOrder ==
    /\ JustHandled => handled.pos + 1 = Len(processedParagraphs)
    /\ (pc = "returned" /\ apiKey) =>
          /\ Len(processedParagraphs) = Len(paragraphs)
          /\ result.text = Join(processedParagraphs, <<" ">>)

\* the note the last step had to record, "" for none
NoteDue ==
    IF handled.outcome = "exhausted" THEN FailedNote
    ELSE IF handled.outcome = "ok" THEN Caveats(handled.resp)
    ELSE <<>>

\* C9: the footnote recorded for the paragraph at position i is stored under
\* key i.
C9_FootnoteUnderOwnIndex ==
    (JustHandled /\ NoteDue # <<>>) =>
        /\ handled.pos \in DOMAIN paragraphFootnotes
        /\ paragraphFootnotes[handled.pos] = <<NoteDue>>

\* a paragraph's text as the builder renders it: without its marker, escaped
Rendered(text) ==
    EscapeLatex(IF SpeakerMatch(text) # "" THEN Trim(Tail(text)) ELSE text)

\* the output text of the paragraph at input position pos (0-based)
OutputOf(pos) ==
    LET order == ProcessingOrder(paragraphs)
    IN processedParagraphs[CHOOSE k \in DOMAIN order : order[k] = pos + 1]

\* C10: every footnote recorded during enhancement for paragraph i is rendered
\* as a \footnote right after the text of paragraph i.
C10_FootnoteOnOwnParagraph ==
    pc = "done" =>
        \A pos \in DOMAIN noted :
            Contains(latex, WithFootnote(Rendered(OutputOf(pos)), noted[pos]))

\* C11: a progress report is issued only after its paragraph has been handled:
\* when the k-th report has gone out, k paragraphs have their output, and 100
\* is reported only when every paragraph has been handled.
C11_ReportAfterHandled ==
    /\ processedCount <= Len(processedParagraphs)
    /\ (globalProgress = 100 /\ pc \in {"loop", "attempt"}) =>
          Len(processedParagraphs) = Len(paragraphs)

\* C12: without the API key enhance calls neither the API nor the limiter and
\* returns the paragraphs joined by single blanks, in input order, with an
\* empty footnote map.
C12_NoKeyPassthrough ==
    ~apiKey =>
        /\ apiCalls = 0
        /\ tokensTaken = 0
        /\ pc \in {"start", "returned", "done"}
        /\ pc # "start" => result = [text |-> Join(paragraphs, <<" ">>), footnotes |-> EmptyMap]

\* C12's case: two different paragraphs have come back from a run without key
C12_Witness ==
    /\ ~apiKey
    /\ pc = "returned"
    /\ Len(paragraphs) = 2
    /\ paragraphs[1] # paragraphs[2]
    /\ result.text = paragraphs[1] \o <<" ">> \o paragraphs[2]

\* the handler and, in streamed mode, its background task are through
Finished == rpc = "returned" /\ cleaned

\* C13: a failed compilation (the compiler fails, or leaves no PDF) does not
\* fail the request: the buffered reply has status 200 and carries the LaTeX
\* and an error text, the stream's last frame is a complete frame without PDF
\* that carries the LaTeX; the PDF is given exactly when the compiler
\* succeeded and the PDF exists.
C13_CompileFailureTolerated ==
    (rpc = "returned" /\ compiled # "none") =>
        IF wantsStream
        THEN writable =>
                /\ frames # <<>>
                /\ Last(frames) = CompleteFrame(compiled = "pdf", latex)
        ELSE /\ response.status = 200
             /\ response.latexContent = Base64(latex)
             /\ (response.kind = "pdf") <=> (compiled = "pdf")
             /\ compiled # "pdf" => (response.kind = "json" /\ response.error # "")

\* C13's case: the compiler failed on a document of two paragraphs in a
\* buffered request that has been answered
C13_Witness ==
    /\ rpc = "returned"
    /\ ~wantsStream
    /\ compiled = "fails"
    /\ Len(paragraphs) = 2
    /\ response.kind = "json"
    /\ response.latexContent.of = latex

\* C14: when the run is through, none of the temporary paths it made exists.
C14_TemporariesRemoved == Finished => files = {}

\* the positions of the frames that end a stream
TerminalFrames == { k \in DOMAIN frames : frames[k].kind \in {"complete", "error"} }

\* C15: a stream holds progress frames, then one last frame that is a
\* complete frame or an error frame: never two of them, none before another
\* frame, and exactly one once the task is through with the client still
\* there.
C15_OneTerminalFrame ==
    /\ Cardinality(TerminalFrames) <= 1
    /\ \A k \in TerminalFrames : k = Len(frames)
    /\ \A k \in DOMAIN frames : frames[k].kind \in {"progress", "complete", "error"}
    /\ (response = StreamReply /\ rpc = "returned" /\ writable) =>
          Cardinality(TerminalFrames) = 1

\* C15's case: two progress frames, then the complete frame
C15_Witness ==
    /\ response = StreamReply
    /\ rpc = "returned"
    /\ Len(frames) = 3
    /\ frames[1].kind = "progress"
    /\ frames[2] = ProgressFrame(100)
    /\ frames[3].kind = "complete"

\* the chunks of the text given to the builder
Chunks == Split(result.text, "\n")

\* the content of chunk k as the document shows it: without marker, escaped,
\* with the footnote of index k - 1 if there is one
Formatted(k) ==
    WithFootnote(Rendered(Chunks[k]), FirstCaveat(result.footnotes, k - 1))

\* The speaker whose block chunk k belongs to, "" for top level.  A chunk
\* without marker closes the open group if unmarkedFlushes, else it joins it.
RECURSIVE Owner(_, _)
Owner(k, unmarkedFlushes) ==
    IF SpeakerMatch(Chunks[k]) # "" THEN SpeakerMatch(Chunks[k])
    ELSE IF unmarkedFlushes \/ k = 1 THEN ""
    ELSE Owner(k - 1, unmarkedFlushes)

StartsBlock(k, unmarkedFlushes) ==
    \/ k = 1
    \/ Owner(k, unmarkedFlushes) = ""
    \/ Owner(k, unmarkedFlushes) # Owner(k - 1, unmarkedFlushes)

\* the last chunk of the block that chunk k starts
BlockEnd(k, unmarkedFlushes) ==
    CHOOSE e \in k..Len(Chunks) :
        /\ \A j \in (k + 1)..e : ~StartsBlock(j, unmarkedFlushes)
        /\ e = Len(Chunks) \/ StartsBlock(e + 1, unmarkedFlushes)

\* the block that chunk k starts
Block(k, unmarkedFlushes) ==
    IF Owner(k, unmarkedFlushes) = "" THEN Formatted(k)
    ELSE Subsection(Owner(k, unmarkedFlushes),
                    [j \in 1..(BlockEnd(k, unmarkedFlushes) - k + 1) |-> Formatted(k + j - 1)])

\* the blocks of the document, in the order of the chunks
ExpectedBlocks(unmarkedFlushes) ==
    LET starts == SelectSeq([k \in 1..Len(Chunks) |-> k],
                            LAMBDA k : StartsBlock(k, unmarkedFlushes))
    IN [b \in DOMAIN starts |-> Block(starts[b], unmarkedFlushes)]

\* the document that holds these blocks
DocumentOf(blocks) ==
    <<"\\begin{spacing}{1.15}", "\n">> \o Join(blocks, <<"\n">>) \o <<"\n", "\\end{spacing}">>

AllMarked == \A k \in DOMAIN Chunks : SpeakerMatch(Chunks[k]) # ""

\* how often the atom occurs in the string
Count(str, atom) == Cardinality({ k \in DOMAIN str : str[k] = atom })

\* C17: for a text whose chunks all carry a marker, the document holds one
\* \subsection*{Speaker N} block per maximal run of chunks of one speaker, in
\* input order, each with the run's chunks in order.
C17_OneBlockPerRun ==
    (pc = "done" /\ AllMarked) =>
        /\ latex = DocumentOf(ExpectedBlocks(TRUE))
        /\ Count(latex, SubsectionHeader("1")) + Count(latex, SubsectionHeader("2"))
              = Cardinality({ k \in DOMAIN Chunks : StartsBlock(k, TRUE) })

\* C17's case: two chunks of speaker 1, then one of speaker 2, give two blocks
C17_Witness ==
    /\ pc = "done"
    /\ Len(Chunks) = 3
    /\ SpeakerMatch(Chunks[1]) = "1"
    /\ SpeakerMatch(Chunks[2]) = "1"
    /\ SpeakerMatch(Chunks[3]) = "2"
    /\ Len(ExpectedBlocks(TRUE)) = 2
    /\ latex = DocumentOf(ExpectedBlocks(TRUE))

\* C18, as stated: a chunk without marker closes the open speaker group and
\* comes after it as top-level content, and is top-level content when no
\* group is open.
C18_UnmarkedFlushes == pc = "done" => latex = DocumentOf(ExpectedBlocks(TRUE))

\* C18, amended: a chunk without marker is appended to the open speaker group
\* when there is one (the group stays open), and is top-level content when no
\* group is open.
C18_UnmarkedJoinsOpenGroup == pc = "done" => latex = DocumentOf(ExpectedBlocks(FALSE))

\* C18's case: a chunk without marker after a chunk of speaker 1, and one
\* before any marker
C18_Witness ==
    /\ pc = "done"
    /\ Len(Chunks) = 3
    /\ SpeakerMatch(Chunks[1]) = ""
    /\ SpeakerMatch(Chunks[2]) = "1"
    /\ SpeakerMatch(Chunks[3]) = ""
    /\ Chunks[3] # <<>>
    /\ Len(ExpectedBlocks(FALSE)) = 2

\* chunk k has a footnote entry whose first element is not empty
HasNote(k) ==
    /\ (k - 1) \in DOMAIN result.footnotes
    /\ result.footnotes[k - 1] # <<>>
    /\ result.footnotes[k - 1][1] # <<>>

\* C19: the document has a \footnote right after the escaped text of chunk k
\* exactly for the chunks with a non-empty first footnote entry, holding the
\* escaped caveat, and it has no \footnote{} without content.
C19_FootnoteWhenNoted ==
    pc = "done" =>
        /\ Count(latex, "\\footnote{") = Cardinality({ k \in DOMAIN Chunks : HasNote(k) })
        /\ \A k \in DOMAIN Chunks :
              HasNote(k) =>
                 Contains(latex, Rendered(Chunks[k]) \o <<"\\footnote{">>
                                 \o EscapeLatex(result.footnotes[k - 1][1]) \o <<"}">>)
        /\ ~Contains(latex, <<"\\footnote{", "}">>)

\* C19's case: a chunk with a caveat, one whose entry is an empty string, one
\* with no entry
C19_Witness ==
    /\ pc = "done"
    /\ Len(Chunks) = 3
    /\ HasNote(1)
    /\ Chunks[1] # <<>>
    /\ 1 \in DOMAIN result.footnotes
    /\ ~HasNote(2)
    /\ 2 \notin DOMAIN result.footnotes
    /\ Count(latex, "\\footnote{") = 1

\* C20: escapeLatex returns its argument with every '%' replaced by '\%' and
\* everything else as it was: a string without '%' comes back unchanged,
\* "50% done" comes back as "50\% done".
C20_EscapesEveryPercent ==
    pc = "escaped" =>
        /\ Len(escaped) = Len(plain)
        /\ \A k \in DOMAIN plain :
              escaped[k] = (IF plain[k] = "%" THEN "\\%" ELSE plain[k])
        /\ Count(plain, "%") = 0 => escaped = plain
        /\ plain = <<"50", "%", " done">> => escaped = <<"50", "\\%", " done">>

\* C20's case: "50% done" has been escaped
C20_Witness ==
    /\ pc = "escaped"
    /\ plain = <<"50", "%", " done">>
    /\ escaped = <<"50", "\\%", " done">>

\* every paragraph came back from the service as it went out
PassedThrough ==
    /\ Len(processedParagraphs) = Len(paragraphs)
    /\ \A k \in DOMAIN paragraphs :
          processedParagraphs[k] = paragraphs[ProcessingOrder(paragraphs)[k]]

\* the transcript has one audio event and the words of it gave paragraphs of
\* speaker 1 and of speaker 2
TwoSpeakersOneEvent ==
    /\ Cardinality({ k \in DOMAIN words : words[k].type = "audio_event" }) = 1
    /\ \E k \in DOMAIN paragraphs : SpeakerMatch(paragraphs[k]) = "1"
    /\ \E k \in DOMAIN paragraphs : SpeakerMatch(paragraphs[k]) = "2"

\* C16: for a transcript of two speakers with one audio event, the paragraphs
\* hold no text of the audio event, a pass-through service leaves the text as
\* it was, and the document has a \subsection*{Speaker N} header for each of
\* the two speakers and no \footnote{} without content.
C16_EndToEnd ==
    /\ pc # "segment" =>
          \A k \in DOMAIN paragraphs : Count(paragraphs[k], "(laughter)") = 0
    /\ (pc = "done" /\ PassedThrough /\ TwoSpeakersOneEvent) =>
          /\ result.text = Join(paragraphs, <<" ">>)
          /\ Count(latex, SubsectionHeader("1")) >= 1
          /\ Count(latex, SubsectionHeader("2")) >= 1
          /\ ~Contains(latex, <<"\\footnote{", "}">>)

\* the speakers of the transcript in the order their blocks are emitted
SpokenSpeakers == ForInOrder(SpeakersOf(Spoken(words), <<>>))

\* the text of a speaker's bucket as the splitter gets it
BucketText(speakerId) == Unidecode(SpeakerText(Spoken(words), speakerId))

SentencesOf(speakerId) == Sentences(BucketText(speakerId))

\* the j-th of the paragraphs a speaker's sentences make: sentences
\* 10(j-1)+1 .. 10j, or up to the last, joined by blanks after the prefix
SliceOf(speakerId, j) ==
    LET ss == SentencesOf(speakerId)
    IN SpeakerPrefix(speakerId) \o Join(SubSeq(ss, 10 * (j - 1) + 1, Min(10 * j, Len(ss))), <<" ">>)

SlicesOf(speakerId) ==
    [j \in 1..CeilDiv(Len(SentencesOf(speakerId)), 10) |-> SliceOf(speakerId, j)]

PrefixSpeaker(paragraph) ==
    CASE Head(paragraph) = "[Speaker 1]:" -> "speaker_1"
      [] Head(paragraph) = "[Speaker 3]:" -> "3"
      [] Head(paragraph) = "[Speaker 10]:" -> "10"
      [] OTHER -> "unknown_speaker"

\* a paragraph without its prefix
Body(paragraph) ==
    IF PrefixSpeaker(paragraph) = "unknown_speaker" THEN paragraph ELSE Drop(paragraph, 2)

NoBlanks(str) == SelectSeq(str, LAMBDA atom : atom \notin Whitespace)

\* the position of a speaker's first word in the transcript
FirstWord(speakerId) ==
    CHOOSE k \in DOMAIN words :
        /\ words[k].type # "audio_event"
        /\ (IF words[k].speaker_id = "" THEN "unknown_speaker" ELSE words[k].speaker_id) = speakerId
        /\ \A j \in 1..(k - 1) :
              \/ words[j].type = "audio_event"
              \/ (IF words[j].speaker_id = "" THEN "unknown_speaker" ELSE words[j].speaker_id)
                    # speakerId

\* the paragraphs of a speaker, without their prefixes, one after the other
SaidBy(speakerId) ==
    LET own == SelectSeq(paragraphs, LAMBDA paragraph : PrefixSpeaker(paragraph) = speakerId)
    IN Flatten([k \in DOMAIN own |-> Body(own[k])])

\* the texts of a speaker's words, in the order of the transcript
WordsOf(speakerId) ==
    LET own == SelectSeq(words, LAMBDA item :
                   /\ item.type # "audio_event"
                   /\ (IF item.speaker_id = "" THEN "unknown_speaker" ELSE item.speaker_id)
                         = speakerId)
    IN Flatten([k \in DOMAIN own |-> own[k].text])

\* C22: segment drops every audio_event token, keeps the other tokens in
\* their order within their speaker's text, treats tokens without a speaker
\* id as unknown_speaker, and orders the speakers' blocks by the order in
\* which each speaker was first encountered.
C22_SpeakersInFirstEncounterOrder ==
    pc = "start" =>
        /\ \A k \in DOMAIN paragraphs : ~Contains(paragraphs[k], <<"(laughter)">>)
        /\ \A x \in {"speaker_1", "3", "unknown_speaker"} :
              NoBlanks(SaidBy(x)) = NoBlanks(Unidecode(WordsOf(x)))
        /\ \A j, k \in DOMAIN paragraphs :
              (j < k /\ PrefixSpeaker(paragraphs[j]) # PrefixSpeaker(paragraphs[k])) =>
                  FirstWord(PrefixSpeaker(paragraphs[j])) < FirstWord(PrefixSpeaker(paragraphs[k]))

\* the speaker whose block holds the k-th paragraph
RECURSIVE OwnerFrom(_, _)
OwnerFrom(speakers, k) ==
    IF speakers = <<>> THEN "none"
    ELSE LET n == CeilDiv(Len(SentencesOf(Head(speakers))), 10)
         IN IF k <= n THEN Head(speakers) ELSE OwnerFrom(Tail(speakers), k - n)

Markers == {"[Speaker 1]:", "[Speaker 2]:", "[Speaker 3]:", "[Speaker 10]:", "[Speaker A]:",
            "[Speaker unknown_speaker]:"}

\* C23: every paragraph starts with "[Speaker <id>]: " naming its own
\* speaker exactly when that speaker is not the unknown placeholder;
\* paragraphs of the unknown speaker carry no prefix.
C23_PrefixNamesSpeaker ==
    pc = "start" =>
        \A k \in DOMAIN paragraphs :
            LET owner == OwnerFrom(SpokenSpeakers, k)
            IN /\ owner = "speaker_1" => StartsWith(paragraphs[k], <<"[Speaker 1]:", " ">>)
               /\ owner = "3" => StartsWith(paragraphs[k], <<"[Speaker 3]:", " ">>)
               /\ owner = "unknown_speaker" => Head(paragraphs[k]) \notin Markers
               /\ owner \in {"speaker_1", "3", "unknown_speaker"}

\* C23's case: a paragraph of speaker_1 and one of the unknown speaker
C23_Witness ==
    /\ pc = "start"
    /\ Len(paragraphs) = 2
    /\ OwnerFrom(SpokenSpeakers, 1) = "speaker_1"
    /\ OwnerFrom(SpokenSpeakers, 2) = "unknown_speaker"
    /\ paragraphs[1] = <<"[Speaker 1]:", " ", "A">>
    /\ paragraphs[2] = <<"A">>

\* punctuation and whitespace
Punctuation == Terminators \cup {","}

\* C24: segment of an empty stream, or of audio events only, returns the
\* empty list, and a speaker whose text is only punctuation or only
\* whitespace contributes no paragraphs.
C24_NothingFromNothing ==
    pc = "start" =>
        /\ Spoken(words) = <<>> => paragraphs = <<>>
        /\ \A x \in {"speaker_1", "3", "unknown_speaker"} :
              (\A k \in DOMAIN WordsOf(x) : WordsOf(x)[k] \in Punctuation \cup Whitespace) =>
                  \A k \in DOMAIN paragraphs : PrefixSpeaker(paragraphs[k]) # x

\* whether the sentences are the text cut only after a terminator that is
\* followed by whitespace and an upper-case letter, the whitespace left out
RECURSIVE CutAtBoundaries(_, _)
CutAtBoundaries(text, cut) ==
    IF cut = <<>> THEN Trim(text) = <<>>
    ELSE IF Len(cut) = 1 THEN text = cut[1]
    ELSE LET rest  == Drop(text, Len(cut[1]))
             after == TrimStart(rest)
         IN /\ StartsWith(text, cut[1])
            /\ Last(cut[1]) \in Terminators
            /\ after # rest
            /\ after # <<>>
            /\ Head(after) \in UpperCase
            /\ CutAtBoundaries(after, Tail(cut))

\* C25: the splitter places a boundary only after a '.', '!' or '?' that is
\* followed by whitespace and then an upper-case letter, or after such a
\* terminator at the very end of the text; no other character causes a split,
\* a literal '|' included, and no fragment is empty or whitespace-only.  (Texts
\* with more than three periods in a row are left to C26.)
C25_BoundariesOnlyAtTerminators ==
    (pc = "sentences" /\ ~Contains(plain, <<".", ".", ".", ".">>)) =>
        /\ CutAtBoundaries(plain, sentenceList)
        /\ \A k \in DOMAIN sentenceList : Trim(sentenceList[k]) # <<>>

\* whether a sentence ends with the period of an abbreviation
EndsWithAbbreviation(sentence) ==
    LET n == Len(sentence)
    IN /\ n >= 2
       /\ sentence[n] = "."
       /\ sentence[n - 1] \in Abbreviations
       /\ n > 2 => sentence[n - 2] \in NonWord

\* C26: the splitter never splits at the period after one of the listed
\* abbreviations, at the period inside a decimal number or inside an
\* ellipsis, and the sentences hold the original periods again, an ellipsis
\* as '...', not the placeholders: "Dr. Smith arrived. He left." and
\* "Pi is 3.14. Done." give two sentences each.  (Texts with a literal '|' are
\* left to C25.)
C26_ProtectedPeriods ==
    /\ (pc = "sentences" /\ ~Contains(plain, <<"|">>)) =>
          /\ \A k \in 1..(Len(sentenceList) - 1) :
                /\ ~EndsWithAbbreviation(sentenceList[k])
                /\ ~(Last(sentenceList[k]) = "." /\ Head(sentenceList[k + 1]) \in Digits \cup {"."})
          /\ \A k \in DOMAIN sentenceList : \A j \in DOMAIN sentenceList[k] :
                sentenceList[k][j] \notin {"___ELLIPSIS___", "___ABBR___", "___DECIMAL___"}
          /\ NoBlanks(Flatten(sentenceList)) = NoBlanks(Restore(CollapseEllipses(plain)))
    /\ Sentences(<<"Dr", ".", " ", "Smith", " ", "arrived", ".", " ", "He", " ", "left", ".">>)
          = << <<"Dr", ".", " ", "Smith", " ", "arrived", ".">>, <<"He", " ", "left", ".">> >>
    /\ Sentences(<<"Pi", " ", "is", " ", "3", ".", "14", ".", " ", "Done", ".">>)
          = << <<"Pi", " ", "is", " ", "3", ".", "14", ".">>, <<"Done", ".">> >>

\* the response every call of the run gets
TheResponse == CHOOSE resp \in service : TRUE

\* C27: a response whose text parses as JSON, or that holds a {...} that
\* parses, is used and its attempt is a success; only when both parses fail
\* is the attempt a failure that consumes one retry, as a throwing call does.
C27_ParseThenExtract ==
    (apiKey /\ pc \in {"attempt", "loop", "returned"}) =>
        /\ retries = attempts.failed
        /\ TheResponse.kind \in {"json", "braces_ok", "scalar", "null"} => attempts.failed = 0
        /\ TheResponse.kind \in {"throw", "garbage", "braces_bad"} =>
              attempts.failed = attempts.calls
        /\ (JustHandled /\ TheResponse.kind \in {"json", "braces_ok", "scalar"}) =>
              /\ handled.outcome = "ok"
              /\ handled.calls = 1
              /\ handled.resp.processed_text = TheResponse.processed_text
              /\ handled.resp.caveats = TheResponse.caveats
              /\ Last(processedParagraphs) =
                    (IF TheResponse.processed_text # <<>> THEN TheResponse.processed_text
                     ELSE paragraphs[handled.pos + 1])
        /\ (JustHandled /\ TheResponse.kind \in {"throw", "garbage", "braces_bad"}) =>
              /\ handled.outcome = "exhausted"
              /\ handled.calls = MaxRetries + 1

\* C27's case: the text held braces that do not parse, on each of the four
\* calls for the paragraph
C27_Witness ==
    /\ JustHandled
    /\ TheResponse.kind = "braces_bad"
    /\ handled.outcome = "exhausted"
    /\ attempts.failed = 4
    /\ retries = 4

\* C28: on a successful attempt the paragraph's output text is the response's
\* processed_text, or the paragraph's original text when processed_text is
\* absent or empty; a footnote holding the caveats is recorded for the
\* paragraph exactly when caveats is present, non-empty and not "None".
C28_TextAndCaveatsTaken ==
    handled.outcome = "ok" =>
        /\ Last(processedParagraphs) =
              (IF handled.resp.processed_text # <<>> THEN handled.resp.processed_text
               ELSE paragraphs[handled.pos + 1])
        /\ IF handled.resp.caveats \notin {<<>>, <<"None">>}
           THEN /\ handled.pos \in DOMAIN paragraphFootnotes
                /\ paragraphFootnotes[handled.pos] = <<handled.resp.caveats>>
           ELSE handled.pos \notin DOMAIN paragraphFootnotes

\* C29: in every state of the enhancement loop, every key of the footnote
\* map is an index 0..n-1 of the input list and every value is a list of
\* exactly one non-empty string.
C29_FootnoteMapWellFormed ==
    /\ \A k \in DOMAIN paragraphFootnotes :
          /\ k \in 0..(Len(paragraphs) - 1)
          /\ Len(paragraphFootnotes[k]) = 1
          /\ paragraphFootnotes[k][1] # <<>>
    /\ \A k \in DOMAIN result.footnotes :
          /\ k \in 0..(Len(paragraphs) - 1)
          /\ Len(result.footnotes[k]) = 1
          /\ result.footnotes[k][1] # <<>>

\* C29's case: a caveat recorded for the first paragraph and the failure note
\* for the second
C29_Witness ==
    /\ pc = "loop"
    /\ Len(paragraphs) = 2
    /\ DOMAIN paragraphFootnotes = {0, 1}
    /\ paragraphFootnotes[0] = <<<<"c">>>>
    /\ paragraphFootnotes[1] = <<FailedNote>>

\* C30: the polled progress is one process-wide value with last-writer-wins
\* semantics: the shared value is always the one most recently written by any
\* run, a reset to 0 at a start or a report for a paragraph, and that is what
\* the poll returns, whichever run wrote it.
C30_LastWriterWins ==
    /\ [](globalProgress = lastWrite.value)
    /\ [][polled' # polled => polled'.progress = lastWrite.value]_vars

\* C30's case: run 1 had reported 100, then run 2 started, and the poll gave
\* run 2's reset
C30_Witness ==
    /\ runs[1].processedCount = 1
    /\ runs[1].totalParagraphs = 1
    /\ runs[1].at = "enhancing"
    /\ lastWrite = [by |-> 2, value |-> 0]
    /\ polled.progress = 0

\* C31: concurrent requests share no intermediate file: under every
\* interleaving no request reads, overwrites or deletes a .tex or .pdf file
\* whose content another request wrote, also when two requests name their
\* files in the same second for uploads of the same name.
C31_RunsShareNoFiles == \A r \in DOMAIN runs : runs[r].touched = {}

\* C32: within the retry loop of one paragraph a wait of exactly 60 seconds
\* follows each of the first three failed attempts, before the next attempt;
\* no wait follows the fourth failed attempt or a successful attempt.
C32_SixtySecondsBetweenAttempts ==
    [][attempts'.calls = attempts.calls + 1 =>
         IF attempts'.failed = attempts.failed + 1 /\ attempts'.failed \in 1..3
         THEN /\ now' = now + 60 * 1000
              /\ pc' = "attempt"
         ELSE /\ now' = now
              /\ pc' # "attempt"]_vars

\* C32's case: the fourth attempt for the first paragraph has failed, three
\* waits after the run began
C32_Witness ==
    /\ handled.outcome = "exhausted"
    /\ handled.calls = 4
    /\ processedCount = 1
    /\ now = 3 * 60 * 1000

\* v = Math.round(k / n * 100), written without the model's Progress
Rounded(v, k, n) == 2 * n * v <= 200 * k + n /\ 200 * k + n < 2 * n * (v + 1)

\* C33: a run over n >= 1 paragraphs that reaches the loop invokes onProgress
\* exactly n times, the k-th time with round(k/n*100): the invocations are
\* counted one by one, the value of the k-th is round(k/n*100), and when
\* enhance has returned n have been made; with no paragraphs or no key there
\* is none.
C33_ProgressReportedPerParagraph ==
    /\ [](/\ processedCount \in 0..Len(paragraphs)
          /\ processedCount >= 1 =>
                Rounded(globalProgress, processedCount, Len(paragraphs))
          /\ pc \in {"returned", "done"} =>
                processedCount = (IF apiKey THEN Len(paragraphs) ELSE 0))
    /\ [][processedCount' # processedCount => processedCount' = processedCount + 1]_vars

\* C34: if every external call returns or throws, every started run comes to
\* its end, having made at most 4n API calls and, where it got to the
\* enhancement loop, exactly n acquisitions from the limiter for its n
\* paragraphs.
C34_RunEndsWithinItsBudget ==
    /\ <>(pc = "done")
    /\ [](apiCalls <= 4 * Len(paragraphs))
    /\ [](pc = "done" /\ apiKey => tokensTaken = Len(paragraphs))

\* the run comes to its end
C34_RunEnds == <>(pc = "done")

\* C35: when a request has finished, on whatever exit path, and no other is
\* in progress, the shared flag isProcessingActive is false.
C35_FlagClearedOnEveryExit == Finished => ~isProcessingActive

\* C36: whenever at least one of the concurrent runs is still in progress, a
\* poll reports isProcessingActive = true.
C36_ActiveWhileAnyRunInProgress ==
    [][polled' # polled /\ (\E r \in DOMAIN runs : runs[r].at = "enhancing")
          => polled'.isProcessingActive]_vars

\* C37: the limiter admits no more than a token bucket of capacity 15 that
\* earns one token per 4 seconds: of the acquisitions completed in any window
\* of T seconds there are at most 15 + floor(T/4), also when a suspended
\* caller is woken late.
C37_WithinIdealBucket ==
    \A j, k \in DOMAIN acquisitions :
        j <= k => k - j + 1 <= 15 + (acquisitions[k].admitted - acquisitions[j].admitted) \div 4000

\* C37's case: a caller was woken late, calls followed it, and 16 acquisitions
\* lie in a window of less than 8 seconds, the most the bound allows
C37_Witness ==
    /\ \E k \in DOMAIN acquisitions : acquisitions[k].late > 0 /\ k + 1 < Len(acquisitions)
    /\ \E j, k \in DOMAIN acquisitions :
          k - j + 1 = 16 /\ acquisitions[k].admitted - acquisitions[j].admitted < 8000

\* the lines of the document between its opening and its closing line
Lines == Split(SubSeq(latex, 3, Len(latex) - 2), "\n")

IsHeader(line) == line \in { <<SubsectionHeader(num)>> : num \in {"1", "2"} }

\* C38: for every text and footnote map the document holds the escaped,
\* marker-stripped content of every chunk exactly once and in input order:
\* its lines other than the \subsection* headers are the chunks' contents,
\* one line per chunk; and no block is empty: every header is followed by
\* the line of a chunk.
C38_EveryChunkOnce ==
    pc = "done" =>
        /\ SelectSeq(Lines, LAMBDA line : ~IsHeader(line))
              = [k \in DOMAIN Chunks |-> Formatted(k)]
        /\ \A h \in DOMAIN Lines :
              IsHeader(Lines[h]) => h < Len(Lines) /\ ~IsHeader(Lines[h + 1])

\* C38's case: a mix of chunks, one on top level, one opening a block, one
\* without marker joining it, and one of the other speaker
C38_Witness ==
    /\ pc = "done"
    /\ Len(Chunks) = 3
    /\ SpeakerMatch(Chunks[1]) = ""
    /\ SpeakerMatch(Chunks[2]) = "1"
    /\ SpeakerMatch(Chunks[3]) = ""
    /\ Len(Lines) = 4

\* the bytes of the first k frames sent
BytesOf(k) == Flatten([j \in 1..k |-> Message(client.sent[j])])

\* the frames that the chunks read so far hold completely
Arrived ==
    LET read == Len(BytesOf(Len(client.sent))) - Len(client.wire)
    IN SubSeq(client.sent, 1,
              Cardinality({ k \in DOMAIN client.sent : Len(BytesOf(k)) <= read }))

\* C39: however the byte stream is cut into chunks, the page has handled
\* exactly the frames that have arrived completely, each once and in the
\* order sent, and shows the progress of the last progress frame handled, or
\* 100 once a complete frame has been handled.
C39_FramesHandledWhateverTheChunks ==
    /\ client.data = Arrived
    /\ client.progress =
          (LET seen == SelectSeq(Arrived, LAMBDA frame : frame.kind \in {"progress", "complete"})
           IN IF seen = <<>> THEN 0
              ELSE IF Last(seen).kind = "complete" THEN 100 ELSE Last(seen).progress)

\* C39's case: two progress frames and a complete frame have arrived one atom per chunk, so every frame
\* was split across chunks, and all three have been handled
C39_Witness ==
    /\ Len(client.sent) = 3
    /\ client.sent[3].kind = "complete"
    /\ client.wire = <<>>
    /\ client.reads = Len(BytesOf(3))
    /\ client.data = client.sent
    /\ client.progress = 100

============================================================================
